---- MODULE Spec2Model ----
(***************************************************************************)
(* Wink uptime monitor (makt28/wink): the monitoring engine.               *)
(*                                                                         *)
(*   internal/monitor/analyzer.go   Analyzer (flapping control)            *)
(*   internal/monitor/scheduler.go  Scheduler (per-target loops)           *)
(*   internal/storage/history.go    HistoryManager (history, incidents)    *)
(*   internal/config/model.go       Config, Validate, Manager              *)
(*                                                                         *)
(* Go maps are functions whose DOMAIN is the set of keys present.  A nil   *)
(* pointer is the empty sequence and a pointer to v is <<v>>.              *)
(***************************************************************************)
EXTENDS Integers, Sequences, FiniteSets, Bags, TLC

\* ------------------------------------------------------------- bounds
MaxTime == 1
MaxFail == 5
MaxIncidents == 2
MaxLoops == 2
MaxChanges == 1
MaxRequests == 2
DocChunks == 2
MaxPts == 2
MaxLater == 2
MaxWindowPts == 3

\* ---------------------------------------------------- program constants
CurrentHistoryVersion == 1
incidentRetentionSec == 2592000
Window24h == 86400
Window7d == 604800
Window30d == 2592000
DefaultCheckInterval == 60

\* ------------------------------------------------------------- inputs
Ids == {"a", "b"}
Thresholds == {1, 3}
Cadences == {0, 2}
Latencies == {12}
ProbeError == "probe failed"
Groups == {"g"}
Timeouts == {3, 10}

\* config.Monitor.  Enabled is a *bool: <<>> is nil, <<TRUE>> and <<FALSE>> point to a value.
Monitor(id, group, interval, timeout, maxRetries, retryInterval, reminderInterval, enabled) ==
    [ID |-> id, GroupID |-> group, Interval |-> interval, Timeout |-> timeout,
     MaxRetries |-> maxRetries, RetryInterval |-> retryInterval,
     ReminderInterval |-> reminderInterval, Enabled |-> enabled]

VARIABLES
    liveMonitors,   \* Manager.cfg.Monitors: the entries of the live configuration, by ID
    liveGroups,     \* Manager.cfg.ContactGroups: the keys of the one map every Config value shares
    now,            \* time.Now().Unix()
    states,         \* Analyzer.states
    hmData,         \* HistoryManager.data
    hmIncidents,    \* HistoryManager.incidents
    maxHistoryPts,  \* HistoryManager.maxHistoryPts
    fileHistory,    \* history.json on disk: <<>> when absent, else <<document>>
    fileIncidents,  \* incidents.json on disk: <<>> when absent, else <<document>>
    diskFault,      \* the write that fails on this disk: "ok" (none), "failHistory",
                    \* "failIncidents", "failConfig"
    proc,           \* the process: whether it has exited, and the targets whose loop has panicked
    router,         \* the Router.Notify in progress: its position in notifierIDs, the
                    \* list, the Sends made so far, and what Process returns after it
    attempts,       \* LoginRateLimiter.attempts: RemoteAddr -> [failCount, lockedAt]
                    \* (lockedAt: <<>> the zero time.Time, else <<seconds>>)
    logins,         \* the Login requests that have passed IsLocked and are comparing
                    \* credentials: a bag of RemoteAddr
    loginObs,       \* per RemoteAddr, the failed logins since the last successful one or
                    \* the end of the last lockout, and the time of the failure that made
                    \* them maxAttempts; and the address and outcome of the last Login step
    dumpers,        \* the Dumps between their RUnlock and their return: how many snapshots
                    \* were taken, the documents of the last one, and per Dump in flight
                    \* its number, its documents and the file it writes next
    liveSystem,     \* Manager.cfg.System: CheckInterval and MaxHistoryPoints of the live
                    \* configuration
    threads,        \* per goroutine of the lock model: the mutexes it holds, in the order
                    \* it acquired them, and the lock operations left of the call it is in
    lastOp,         \* the call of the History Store made by the step just taken
    atDump,         \* the store's contents when the last Dump that wrote both files copied
                    \* them, and the time of that Dump: <<>> when none, else <<[hm, time]>>
    got,            \* what a caller holds from GetMonitor: <<>> when nothing, else <<value>>
    lastEvents,     \* the AlertEvents handed to Router.Notify by the step just taken
    failRun,        \* per id: failed results processed since the state was last UP with failCount 0
    downRun,        \* per id: failed results processed after the one that caused DOWN (-1: not DOWN)
    lastType,       \* per id: the Type of the last event emitted for it since its runtime
                    \* state was last created ("": none yet)
    running,        \* Scheduler.running: id -> [cfg] (its cancel func stops the id's one uncancelled loop)
    loops,          \* the per-target goroutines alive: a bag of [m, pc, cancelled]
    wg,             \* Scheduler.wg counter
    stopPc,         \* Scheduler.Stop: "idle", "closed", "cancelled", "returned"
    watcherPc,      \* watchChanges: "off", "subscribe", "select", "sync", "apply", "done"
    watchCfg,       \* the Monitors slice of the Config watchChanges got from Get (a Snapshot)
    onChange,       \* signals buffered in the watcher's channel (capacity 1)
    pendingRemove,  \* DeleteMonitor calls between their Save and their histMgr.RemoveMonitor
    changes,        \* configuration requests and process restarts so far
    stale,          \* how far the Scheduler is behind the last successful Save: "no" (it has
                    \* reconciled a configuration at least as recent), "saved" (no Get of the
                    \* watcher came after it), "syncing" (the watcher's Get came after it and
                    \* the reconciliation is under way)
    stopRace,       \* TRUE once a reconciliation has started a loop after stopCh was closed
    syncDesired,    \* syncMonitors: the desired map its first loop has built
    hPc,            \* the web handler serving a request: "idle", "edit", "save"
    hReq,           \* the request it serves
    hCfg,           \* the Monitors slice of the Config the handler got from Get (a Snapshot)
    hBefore,        \* the live configuration as it was when the handler called Get
    hDone,          \* how the last request's Save ended: "none", "ok", "rejected"
    dumpPc,         \* the Dump in progress: the file and the step its atomicWriteJSON is at
    dumpTmp,        \* the temporary file of that atomicWriteJSON: <<>> when none, else its contents
    lastDump,       \* the files' contents when the last Dump began, and what it writes to them
    lastCrash       \* the dumpPc at which the last process crash came

analyzerVars == <<states, lastEvents>>
observerVars == <<failRun, downRun, lastType>>
configVars == <<liveMonitors, liveGroups>>
historyVars == <<hmData, hmIncidents, maxHistoryPts>>
fileVars == <<fileHistory, fileIncidents>>
storeObsVars == <<lastOp, atDump, got>>
authVars == <<attempts, logins, loginObs>>
envVars == <<diskFault, proc, router, authVars, dumpers, liveSystem, threads, storeObsVars>>
schedVars == <<running, loops, wg, stopPc, watcherPc, stopRace>>
snapVars == <<watchCfg, syncDesired>>
handlerVars == <<hPc, hReq, hCfg, hBefore, hDone>>
dumpVars == <<dumpPc, dumpTmp, lastDump, lastCrash>>
sideVars == <<handlerVars, dumpVars>>
webVars == <<onChange, pendingRemove, changes, stale>>
vars == <<now, envVars, configVars, analyzerVars, observerVars, historyVars, fileVars,
          schedVars, snapVars, webVars, handlerVars, dumpVars>>

\* config.SystemConfig, the two fields the Scheduler and the History Store
\* are given.
System(checkInterval, maxHistoryPoints) ==
    [CheckInterval |-> checkInterval, MaxHistoryPoints |-> maxHistoryPoints]

\* main: the configuration as loaded, whose max_history_points
\* NewHistoryManager was given.
SystemAsLoaded == liveSystem = System(DefaultCheckInterval, maxHistoryPts)

\* The goroutines of the lock model: the watcher, main, a per-target loop
\* and two web handlers.
Threads == {"watcher", "main", "loop", "web1", "web2"}

\* No goroutine holds a mutex or is inside a call.
ThreadsIdle == threads = [t \in Threads |-> [held |-> <<>>, todo |-> <<>>]]

\* ------------------------------------------------------------ Go maps
Put(f, k, v) == [x \in (DOMAIN f) \cup {k} |-> IF x = k THEN v ELSE f[x]]
Del(f, k) == [x \in (DOMAIN f) \ {k} |-> f[x]]
EmptyMap == [x \in {} |-> 0]

Min(a, b) == IF a <= b THEN a ELSE b

\* ====================================================== HistoryManager

NewMonitorHistory ==
    [Uptime24h |-> <<0, 1>>, Uptime7d |-> <<0, 1>>, Uptime30d |-> <<0, 1>>,
     LatencyHistory |-> <<>>, LastCheckTime |-> 0, IsUp |-> TRUE]

NewHistoryData == [Version |-> CurrentHistoryVersion, LastDumpTime |-> 0, Monitors |-> EmptyMap]

\* The store as one value: hm.data and hm.incidents.
HM(data, incs) == [data |-> data, incidents |-> incs]

\* ensureMonitor: creates the history entry and the (empty) incident list.
ensureMonitor(hm, id) ==
    LET mons == IF id \in DOMAIN hm.data.Monitors
                THEN hm.data.Monitors
                ELSE Put(hm.data.Monitors, id, NewMonitorHistory)
        incs == IF id \in DOMAIN hm.incidents
                THEN hm.incidents
                ELSE Put(hm.incidents, id, <<>>)
    IN  HM([hm.data EXCEPT !.Monitors = mons], incs)

\* An uptime over all the points kept, whatever their age.
calcUptimeWindowAllPoints(points, t, windowSec) ==
    LET total == Len(points)
        up == Cardinality({i \in 1..Len(points) : points[i].Up})
    IN  IF total = 0 THEN <<100, 1>> ELSE <<100 * up, total>>

\* calcUptimeWindow: float64(up)/float64(total)*100, kept as the exact pair
\* <<100*up, total>> (numerator, denominator); an empty window is <<100, 1>>.
calcUptimeWindow(points, t, windowSec) ==
    LET cutoff == t - windowSec
        total == Cardinality({i \in 1..Len(points) : points[i].Time >= cutoff})
        up == Cardinality({i \in 1..Len(points) :
                              points[i].Time >= cutoff /\ points[i].Up})
    IN  IF total = 0 THEN <<100, 1>> ELSE <<100 * up, total>>

recalcUptime(h, t) ==
    [h EXCEPT !.Uptime24h = calcUptimeWindow(h.LatencyHistory, t, Window24h),
              !.Uptime7d = calcUptimeWindow(h.LatencyHistory, t, Window7d),
              !.Uptime30d = calcUptimeWindow(h.LatencyHistory, t, Window30d)]

\* A trim that drops the newest points.
TrimHistoryOldest(pts, maxPts) ==
    IF Len(pts) > maxPts THEN SubSeq(pts, 1, maxPts) ELSE pts

\* Ring buffer: keep the last maxPts points.
TrimHistory(pts, maxPts) ==
    IF Len(pts) > maxPts
    THEN SubSeq(pts, Len(pts) - maxPts + 1, Len(pts))
    ELSE pts

\* A RecordProbe that keeps the results of a target out of the latency
\* history while they fail.
RecordProbeSuccessesOnly(hm, id, latencyMs, up, t, maxPts) ==
    LET e == ensureMonitor(hm, id)
        h == e.data.Monitors[id]
        pts == IF up
               THEN TrimHistory(Append(h.LatencyHistory,
                                       [Time |-> t, Latency |-> latencyMs, Up |-> up]), maxPts)
               ELSE h.LatencyHistory
        h2 == recalcUptime([h EXCEPT !.LatencyHistory = pts,
                                     !.LastCheckTime = t,
                                     !.IsUp = up], t)
    IN  HM([e.data EXCEPT !.Monitors[id] = h2], e.incidents)

RecordProbe(hm, id, latencyMs, up, t, maxPts) ==
    LET e == ensureMonitor(hm, id)
        h == e.data.Monitors[id]
        pts == TrimHistory(Append(h.LatencyHistory,
                                  [Time |-> t, Latency |-> latencyMs, Up |-> up]), maxPts)
        h2 == recalcUptime([h EXCEPT !.LatencyHistory = pts,
                                     !.LastCheckTime = t,
                                     !.IsUp = up], t)
    IN  HM([e.data EXCEPT !.Monitors[id] = h2], e.incidents)

NewIncident(t, reason) ==
    [Type |-> "down", StartedAt |-> t, ResolvedAt |-> <<>>, Duration |-> 0, Reason |-> reason]

RecordDown(hm, id, reason, t) ==
    LET e == ensureMonitor(hm, id)
    IN  HM([e.data EXCEPT !.Monitors[id].IsUp = FALSE],
           [e.incidents EXCEPT ![id] = Append(@, NewIncident(t, reason))])

IsOpen(inc) == inc.ResolvedAt = <<>>

\* The index RecordUp's backward scan stops at (0: no unresolved incident).
LatestOpen(incs) ==
    LET open == {i \in 1..Len(incs) : IsOpen(incs[i])}
    IN  IF open = {} THEN 0 ELSE CHOOSE i \in open : \A j \in open : j <= i

ResolveIncident(inc, t) ==
    [inc EXCEPT !.ResolvedAt = <<t>>, !.Duration = t - inc.StartedAt]

RecordUp(hm, id, t) ==
    LET e == ensureMonitor(hm, id)
        incs == e.incidents[id]
        i == LatestOpen(incs)
    IN  HM([e.data EXCEPT !.Monitors[id].IsUp = TRUE],
           IF i = 0 THEN e.incidents
           ELSE [e.incidents EXCEPT ![id][i] = ResolveIncident(incs[i], t)])

RemoveMonitor(hm, id) ==
    HM([hm.data EXCEPT !.Monitors = Del(@, id)], Del(hm.incidents, id))

\* Dump's two documents.
\* A retention test that drops an incident started exactly 30 days ago.
KeepIncidentStrict(inc, cutoff) == inc.StartedAt > cutoff \/ inc.ResolvedAt = <<>>

\* history.go:241
KeepIncident(inc, cutoff) == inc.StartedAt >= cutoff \/ inc.ResolvedAt = <<>>

RECURSIVE FilterKept(_, _)
FilterKept(incs, cutoff) ==
    IF incs = <<>> THEN <<>>
    ELSE IF KeepIncident(Head(incs), cutoff)
         THEN <<Head(incs)>> \o FilterKept(Tail(incs), cutoff)
         ELSE FilterKept(Tail(incs), cutoff)

\* encoding/json writes a float64 as the shortest decimal that denotes it
\* and reads that decimal back to the same float64.  The float64 computed
\* from <<n, d>> is the one nearest to n/d, so the decimal is kept as the
\* fraction in lowest terms.
RECURSIVE GCD(_, _)
GCD(a, b) == IF b = 0 THEN a ELSE GCD(b, a % b)

MarshalFloat(f) == LET g == GCD(f[1], f[2]) IN <<f[1] \div g, f[2] \div g>>

\* json.MarshalIndent of one MonitorHistory of dataCopy.
MarshalHistory(h) ==
    [h EXCEPT !.Uptime24h = MarshalFloat(@), !.Uptime7d = MarshalFloat(@),
              !.Uptime30d = MarshalFloat(@)]

\* Two float64 values are equal.
FloatEq(f, g) == f[1] * g[2] = g[1] * f[2]

DumpHistoryDoc(hm, t) ==
    [Version |-> hm.data.Version, LastDumpTime |-> t,
     Monitors |-> [k \in DOMAIN hm.data.Monitors |-> MarshalHistory(hm.data.Monitors[k])]]

DumpIncidentsDoc(hm, t) ==
    LET cutoff == t - incidentRetentionSec
        keptIds == {k \in DOMAIN hm.incidents : FilterKept(hm.incidents[k], cutoff) # <<>>}
    IN  [Version |-> CurrentHistoryVersion, LastDumpTime |-> t,
         Monitors |-> [k \in keptIds |-> FilterKept(hm.incidents[k], cutoff)]]

\* Dump as one call that no crash interrupts.  out says how far it gets on
\* this disk: "ok", "failHistory" (the first write fails, nothing is written)
\* or "failIncidents" (history.json is replaced, incidents.json is not).
DumpOutcomes == {"ok", "failHistory", "failIncidents"}

\* A Dump that writes neither file.
DumpFilesWritesNothing(hm, t, out, fh, fi) == [history |-> fh, incidents |-> fi]

DumpFiles(hm, t, out, fh, fi) ==
    [history |-> IF out = "failHistory" THEN fh ELSE <<DumpHistoryDoc(hm, t)>>,
     incidents |-> IF out = "ok" THEN <<DumpIncidentsDoc(hm, t)>> ELSE fi]

\* A constructor that reads history.json only.
LoadStoreHistoryOnly(fh, fi) ==
    HM(IF fh = <<>> THEN NewHistoryData ELSE fh[1], EmptyMap)

\* NewHistoryManager: what the two files load to.
LoadStore(fh, fi) ==
    HM(IF fh = <<>> THEN NewHistoryData ELSE fh[1],
       IF fi = <<>> THEN EmptyMap ELSE fi[1].Monitors)

\* ============================================================ Analyzer

NewMonitorState == [isUp |-> TRUE, failCount |-> 0, reminderCount |-> 0]

\* A runtime state that starts DOWN.
ensureStateDown(st, id) ==
    IF id \in DOMAIN st THEN st
    ELSE Put(st, id, [isUp |-> FALSE, failCount |-> 0, reminderCount |-> 0])

\* analyzer.go:135-142
ensureState(st, id) == IF id \in DOMAIN st THEN st ELSE Put(st, id, NewMonitorState)

AlertEvent(id, type, reason, t) ==
    [MonitorID |-> id, Type |-> type, Reason |-> reason, Timestamp |-> t]

\* A threshold test that needs one failure more than configured.
ThresholdReachedLate(wasUp, failCount, maxRetries) == wasUp /\ failCount > maxRetries

\* analyzer.go:88
ThresholdReached(wasUp, failCount, maxRetries) == wasUp /\ failCount >= maxRetries

\* analyzer.go:107
ReminderArmed(wasUp, reminderInterval) == ~wasUp /\ reminderInterval > 0

\* A cadence test that fires one failure late.
ReminderDueLate(reminderCount, reminderInterval) == reminderCount > reminderInterval

\* analyzer.go:110
ReminderDue(reminderCount, reminderInterval) == reminderCount >= reminderInterval

\* A success path that leaves the failure counter alone.
ResetCountersKeepsFailures(s) == [s EXCEPT !.reminderCount = 0]

\* analyzer.go:54-55
ResetCounters(s) == [s EXCEPT !.failCount = 0, !.reminderCount = 0]

\* The outcome of Process as a value: the new runtime state of id, the new
\* store, the files after the call and the events handed to the router.
ProcessResult(st0, hm0, fh, fi, t, maxPts, id, maxRetries, reminderInterval, up, latencyMs, dumpOut) ==
    LET st == ensureState(st0, id)
        s == st[id]
        hm1 == RecordProbe(hm0, id, latencyMs, up, t, maxPts)
    IN  IF up
        THEN LET s2 == ResetCounters(s)
             IN  IF ~s.isUp
                 THEN LET hm2 == RecordUp(hm1, id, t)
                          f == DumpFiles(hm2, t, dumpOut, fh, fi)
                      IN  [state |-> [s2 EXCEPT !.isUp = TRUE], hm |-> hm2,
                           history |-> f.history, incidents |-> f.incidents,
                           events |-> <<AlertEvent(id, "up", "", t)>>,
                           IsFailing |-> FALSE, dumped |-> TRUE]
                 ELSE [state |-> s2, hm |-> hm1, history |-> fh, incidents |-> fi,
                       events |-> <<>>, IsFailing |-> FALSE, dumped |-> FALSE]
        ELSE LET fc == s.failCount + 1
             IN  IF ThresholdReached(s.isUp, fc, maxRetries)
                 THEN LET hm2 == RecordDown(hm1, id, ProbeError, t)
                          f == DumpFiles(hm2, t, dumpOut, fh, fi)
                      IN  [state |-> [isUp |-> FALSE, failCount |-> fc, reminderCount |-> 0],
                           hm |-> hm2, history |-> f.history, incidents |-> f.incidents,
                           events |-> <<AlertEvent(id, "down", ProbeError, t)>>,
                           IsFailing |-> TRUE, dumped |-> TRUE]
                 ELSE IF ReminderArmed(s.isUp, reminderInterval)
                 THEN LET rc == s.reminderCount + 1
                      IN  IF ReminderDue(rc, reminderInterval)
                          THEN [state |-> [s EXCEPT !.failCount = fc, !.reminderCount = 0],
                                hm |-> hm1, history |-> fh, incidents |-> fi,
                                events |-> <<AlertEvent(id, "down", ProbeError, t)>>,
                                IsFailing |-> TRUE, dumped |-> FALSE]
                          ELSE [state |-> [s EXCEPT !.failCount = fc, !.reminderCount = rc],
                                hm |-> hm1, history |-> fh, incidents |-> fi,
                                events |-> <<>>, IsFailing |-> TRUE, dumped |-> FALSE]
                 ELSE [state |-> [s EXCEPT !.failCount = fc],
                       hm |-> hm1, history |-> fh, incidents |-> fi,
                       events |-> <<>>, IsFailing |-> TRUE, dumped |-> FALSE]


\* Process as a step of the Analyzer (it holds a.mu from entry to return).
Process(id, maxRetries, reminderInterval, up, latencyMs) ==
    LET r == ProcessResult(states, HM(hmData, hmIncidents), fileHistory, fileIncidents,
                           now, maxHistoryPts, id, maxRetries, reminderInterval,
                           up, latencyMs, diskFault)
    IN  /\ states' = Put(states, id, r.state)
        /\ hmData' = r.hm.data
        /\ hmIncidents' = r.hm.incidents
        /\ fileHistory' = r.history
        /\ fileIncidents' = r.incidents
        /\ lastEvents' = r.events
        /\ UNCHANGED maxHistoryPts

\* RemoveState: delete(a.states, id).
RemoveState(st, id) == Del(st, id)

\* A Config value holds its Monitors as a slice.  Manager.Get returns m.cfg
\* by value, so the copy's slice is the live configuration's array until a
\* Save installs another array.  A Snapshot says which array a Config value
\* holds: the live one (live = TRUE) or a detached one with contents mons.
NoSnapshot == [live |-> FALSE, mons |-> EmptyMap]
LiveSnapshot == [live |-> TRUE, mons |-> EmptyMap]
SnapMonitors(snap) == IF snap.live THEN liveMonitors ELSE snap.mons

\* What a holder of snap is left with when m.cfg gets another array.
Detach(snap) == IF snap.live THEN [live |-> FALSE, mons |-> liveMonitors] ELSE snap

\* A call of the store: its name ("probe", "dump", "dumpFailed", "load", or
\* "other"), the target id and, for RecordProbe, the length the target's
\* latency sequence had before the call.
StoreOp(op, id, n) == [op |-> op, id |-> id, n |-> n]

\* No call of the store is being followed, and no caller holds a value.
StoreUnobserved ==
    /\ lastOp = StoreOp("none", "", 0)
    /\ atDump = <<>>
    /\ got = <<>>

\* No Router.Notify is in progress (pc 0); isFailing is the AnalyzeResult of
\* the last Process that called it.
RouterIdle == [pc |-> 0, ids |-> <<>>, attempts |-> <<>>, isFailing |-> FALSE]

\* r.RemoteAddr of the Login requests: host:port, two connections of one host.
Addrs == {"10.0.0.1:5001", "10.0.0.1:5002"}

\* NewLoginRateLimiter: no address has a record; no Login is in progress.
LimiterIdle ==
    /\ attempts = EmptyMap
    /\ logins = EmptyBag
    /\ loginObs = [fails |-> [a \in Addrs |-> 0], lockT |-> [a \in Addrs |-> <<>>], last |-> <<>>]

\* No Dump has taken a snapshot.
NoDumpers == [taken |-> 0, last |-> <<>>, flying |-> {}]

\* The process as main starts it: running, no goroutine has panicked.
ProcessUp == [exited |-> FALSE, panics |-> {}]

\* NewScheduler: nothing running, Start not yet called.
SchedulerIdle ==
    /\ running = EmptyMap
    /\ loops = EmptyBag
    /\ wg = 0
    /\ stopPc = "idle"
    /\ watcherPc = "off"
    /\ watchCfg = NoSnapshot
    /\ syncDesired = EmptyMap
    /\ onChange = 0
    /\ pendingRemove = {}
    /\ changes = 0
    /\ stale = "no"
    /\ stopRace = FALSE

\* No request is being served.
HandlerIdle ==
    /\ hPc = "idle"
    /\ hReq = <<>>
    /\ hCfg = NoSnapshot
    /\ hBefore = <<>>
    /\ hDone = "none"

\* Where a Dump is: in atomicWriteJSON for file ("history", "incidents") at
\* step ("create", "write", "sync", "close", "rename") with written chunks
\* of the document handed to tmp.Write; NoDump when none is in progress.
DumpAt(file, step, written) == [file |-> file, step |-> step, written |-> written]
NoDump == DumpAt("none", "idle", 0)

\* lastDump when no Dump is under way: nothing to write, the files are fh and fi.
Settled(fh, fi) == [oldH |-> fh, oldI |-> fi, newH |-> fh, newI |-> fi]

\* No Dump has been started.
DumpIdle ==
    /\ dumpPc = NoDump
    /\ dumpTmp = <<>>
    /\ lastDump = Settled(fileHistory, fileIncidents)
    /\ lastCrash = NoDump

\* =========================================================================
\* SpecAnalyzer: the Analyzer and the History Store of one process, started
\* on the files an earlier run left, for the configured target "a" (the
\* files may also hold a target "b" that is no longer configured).  The
\* callers' steps are the calls the Scheduler makes: Process for each probe
\* result, RemoveState when the target is disabled; Restart ends the process
\* and constructs Analyzer and store again.
\* =========================================================================

FailCountOf(id) == IF id \in DOMAIN states THEN states[id].failCount ELSE 0
IncidentCountOf(id) == IF id \in DOMAIN hmIncidents THEN Len(hmIncidents[id]) ELSE 0

\* A failed result is fed only while the counters are within the bounds.
FailAllowed(id) == FailCountOf(id) < MaxFail /\ IncidentCountOf(id) < MaxIncidents

Probed == {"a"}

\* What incidents.json may hold for "b" when the process starts.
OldIncidents ==
    {<<>>,
     <<[Type |-> "down", StartedAt |-> 0, ResolvedAt |-> <<>>, Duration |-> 0, Reason |-> ProbeError]>>,
     <<[Type |-> "down", StartedAt |-> 0, ResolvedAt |-> <<0>>, Duration |-> 0, Reason |-> ProbeError]>>}

OldIncidentsFile(incs) ==
    IF incs = <<>> THEN <<>>
    ELSE <<[Version |-> CurrentHistoryVersion, LastDumpTime |-> 0,
            Monitors |-> [k \in {"b"} |-> incs]]>>

InitAnalyzer ==
    /\ \E T \in Thresholds, R \in Cadences :
          liveMonitors = [i \in Probed |-> Monitor(i, "", 60, 5, T, 0, R, <<>>)]
    /\ liveGroups = {}
    /\ now = 0
    /\ diskFault \in DumpOutcomes
    /\ states = EmptyMap
    /\ maxHistoryPts = 1
    /\ fileHistory = <<>>
    /\ \E incs \in OldIncidents : fileIncidents = OldIncidentsFile(incs)
    /\ hmData = LoadStore(fileHistory, fileIncidents).data
    /\ hmIncidents = LoadStore(fileHistory, fileIncidents).incidents
    /\ lastEvents = <<>>
    /\ failRun = [i \in Ids |-> 0]
    /\ downRun = [i \in Ids |-> -1]
    /\ lastType = [i \in Ids |-> ""]
    /\ proc = ProcessUp
    /\ router = RouterIdle
    /\ LimiterIdle
    /\ ThreadsIdle
    /\ SystemAsLoaded
    /\ dumpers = NoDumpers
    /\ StoreUnobserved
    /\ SchedulerIdle
    /\ HandlerIdle
    /\ DumpIdle

\* The observers count results; they never read the Analyzer's counters.
Observe(id, up, wasDown, goesDown) ==
    /\ failRun' = [failRun EXCEPT ![id] = IF up THEN 0 ELSE @ + 1]
    /\ downRun' = [downRun EXCEPT ![id] =
                      IF up THEN -1
                      ELSE IF wasDown THEN @ + 1
                      ELSE IF goesDown THEN 0 ELSE -1]
    /\ lastType' = [lastType EXCEPT ![id] =
                       IF lastEvents' = <<>> THEN @ ELSE lastEvents'[Len(lastEvents')].Type]

ObserveReset(id) ==
    /\ failRun' = [failRun EXCEPT ![id] = 0]
    /\ downRun' = [downRun EXCEPT ![id] = -1]
    /\ lastType' = [lastType EXCEPT ![id] = ""]

AProcess ==
    \E id \in Probed, up \in BOOLEAN, lat \in Latencies :
        LET m == liveMonitors[id]
            wasDown == id \in DOMAIN states /\ ~states[id].isUp
        IN  /\ up \/ FailAllowed(id)
            /\ Process(id, m.MaxRetries, m.ReminderInterval, up, lat)
            /\ Observe(id, up, wasDown, ~states'[id].isUp)
            /\ UNCHANGED <<now, envVars, sideVars, configVars, schedVars, snapVars, webVars>>

ARemoveState ==
    \E id \in DOMAIN states :
        /\ states' = RemoveState(states, id)
        /\ ObserveReset(id)
        /\ lastEvents' = <<>>
        /\ UNCHANGED <<now, envVars, sideVars, configVars, historyVars, fileVars,
                       schedVars, snapVars, webVars>>

ARestart ==
    /\ states # EmptyMap
    /\ states' = EmptyMap
    /\ hmData' = LoadStore(fileHistory, fileIncidents).data
    /\ hmIncidents' = LoadStore(fileHistory, fileIncidents).incidents
    /\ failRun' = [i \in Ids |-> 0]
    /\ downRun' = [i \in Ids |-> -1]
    /\ lastType' = [i \in Ids |-> ""]
    /\ lastEvents' = <<>>
    /\ UNCHANGED <<now, envVars, sideVars, configVars, maxHistoryPts, fileVars,
                   schedVars, snapVars, webVars>>

Tick ==
    /\ now < MaxTime
    /\ now' = now + 1
    /\ lastEvents' = <<>>
    /\ UNCHANGED <<envVars, sideVars, configVars, states, observerVars, historyVars, fileVars,
                   schedVars, snapVars, webVars>>

NextAnalyzer == AProcess \/ ARemoveState \/ ARestart \/ Tick

SpecAnalyzer == InitAnalyzer /\ [][NextAnalyzer]_vars

\* ---------------------------------------------------------------- C1
PriorIncidents(id) == IF id \in DOMAIN hmIncidents THEN hmIncidents[id] ELSE <<>>

\* C1: for a target with failure threshold T >= 1 whose runtime state is UP
\* with failure counter 0, each of the first T-1 consecutive failed results
\* leaves the state UP, emits no event and opens no incident; the T-th moves
\* the state to DOWN, appends one open incident and emits exactly one down
\* event.
C1_ThresholdDebounce ==
    [][\A id \in Probed :
          LET T == liveMonitors[id].MaxRetries
              n == failRun'[id]
          IN  (T >= 1 /\ failRun'[id] = failRun[id] + 1) =>
                /\ (n < T) => /\ states'[id].isUp
                              /\ lastEvents' = <<>>
                              /\ hmIncidents'[id] = PriorIncidents(id)
                /\ (n = T) => /\ ~states'[id].isUp
                              /\ lastEvents' = <<AlertEvent(id, "down", ProbeError, now)>>
                              /\ hmIncidents'[id] =
                                    Append(PriorIncidents(id), NewIncident(now, ProbeError))
      ]_vars

\* The third of three consecutive failures has just taken a threshold-3 target DOWN.
C1_Witness ==
    \E id \in Probed :
        /\ liveMonitors[id].MaxRetries = 3
        /\ failRun[id] = 3
        /\ id \in DOMAIN states /\ ~states[id].isUp
        /\ Len(lastEvents) = 1 /\ lastEvents[1].Type = "down"

\* ---------------------------------------------------------------- C2
OpenIncidents(id) ==
    IF id \in DOMAIN hmIncidents
    THEN {i \in 1..Len(hmIncidents[id]) : IsOpen(hmIncidents[id][i])}
    ELSE {}

\* C2: for a target whose runtime state is DOWN, one successful result moves
\* it to UP, emits exactly one up event and resolves the target's single open
\* incident (resolution time set, duration = resolvedAt - startedAt); no
\* other incident of that or any other target is modified.
C2_RecoveryResolvesTheOpenIncident ==
    [][\A id \in Probed :
          (id \in DOMAIN states /\ ~states[id].isUp /\
           id \in DOMAIN states' /\ states'[id].isUp) =>
             /\ lastEvents' = <<AlertEvent(id, "up", "", now)>>
             /\ Cardinality(OpenIncidents(id)) = 1
             /\ \A i \in OpenIncidents(id) :
                   hmIncidents' = [hmIncidents EXCEPT ![id][i] =
                                     [hmIncidents[id][i] EXCEPT
                                        !.ResolvedAt = <<now>>,
                                        !.Duration = now - hmIncidents[id][i].StartedAt]]
      ]_vars

\* ---------------------------------------------------------------- C3
\* C3: while a target is DOWN with reminder cadence R, the n-th failed result
\* after the one that caused the DOWN transition emits one down event exactly
\* when R > 0 and n is a multiple of R, and none otherwise (none at all for
\* R = 0); such a result opens or resolves no incident, writes no file, and
\* changes nothing in the store but what recording its latency point sets.
C3_ReminderCadence ==
    [][\A id \in Probed :
          LET R == liveMonitors[id].ReminderInterval
              n == downRun'[id]
          IN  (downRun[id] >= 0 /\ downRun'[id] = downRun[id] + 1) =>
                /\ lastEvents' = IF R > 0 /\ n % R = 0
                                 THEN <<AlertEvent(id, "down", ProbeError, now)>>
                                 ELSE <<>>
                /\ hmIncidents' = hmIncidents
                /\ fileHistory' = fileHistory
                /\ fileIncidents' = fileIncidents
                /\ hmData' = [hmData EXCEPT
                                !.Monitors[id].LatencyHistory = hmData'.Monitors[id].LatencyHistory,
                                !.Monitors[id].LastCheckTime = hmData'.Monitors[id].LastCheckTime,
                                !.Monitors[id].Uptime24h = hmData'.Monitors[id].Uptime24h,
                                !.Monitors[id].Uptime7d = hmData'.Monitors[id].Uptime7d,
                                !.Monitors[id].Uptime30d = hmData'.Monitors[id].Uptime30d]
      ]_vars

\* The fourth failed result after the DOWN transition (the second reminder at cadence 2).
C3_Witness ==
    \E id \in Probed :
        /\ liveMonitors[id].ReminderInterval = 2
        /\ downRun[id] = 4
        /\ Len(lastEvents) = 1 /\ lastEvents[1].Type = "down"

\* =========================================================================
\* Spec: the Scheduler of one process with the target "a", its per-target
\* loops, the Analyzer and the History Store, driven by the web handlers
\* that change the target (each a Get, an edit and a successful Save) and by
\* main's Start and Stop.  ProcessRestart ends the process at any point and
\* starts it again on the files it left.
\* =========================================================================

\* Monitor.IsEnabled: a nil Enabled counts as enabled.
IsEnabled(m) == m.Enabled = <<>> \/ m.Enabled[1]

\* syncMonitors, first loop: the enabled entries of the snapshot, by ID.
Desired(mons) == [id \in {i \in DOMAIN mons : IsEnabled(mons[i])} |-> mons[id]]

\* A per-target goroutine: the definition m it was started with, where it
\* is ("probe": before its first probe, "wait": in its select) and whether
\* its context has been cancelled.
Loop(m, pc, cancelled) == [m |-> m, pc |-> pc, cancelled |-> cancelled]

One(l) == SetToBag({l})

\* The scheduler's side of a reconciliation as one value.
Sched(run, lp, st, n) == [running |-> run, loops |-> lp, states |-> st, wg |-> n]

\* startMonitor: registers the handle, wg.Add(1), starts the goroutine (its
\* first probe comes before any wait).
startMonitor(sch, m) ==
    Sched(Put(sch.running, m.ID, [cfg |-> m]),
          sch.loops (+) One(Loop(m, "probe", FALSE)),
          sch.states, sch.wg + 1)

RECURSIVE StartAll(_, _, _)
StartAll(sch, desired, ids) ==
    IF ids = {} THEN sch
    ELSE LET id == CHOOSE x \in ids : TRUE
         IN  StartAll(startMonitor(sch, desired[id]), desired, ids \ {id})

\* rm.cancel() for the handles of the given ids: each handle's context
\* belongs to the one loop started with it.
CancelLoops(run, lp, ids) ==
    LET hit == {l \in BagToSet(lp) : ~l.cancelled /\ l.m.ID \in ids /\ l.m = run[l.m.ID].cfg}
    IN  (lp (-) SetToBag(hit)) (+) SetToBag({[l EXCEPT !.cancelled = TRUE] : l \in hit})

\* A comparison that finds every definition changed.
DeepEqualNever(m1, m2) == FALSE

\* reflect.DeepEqual(rm.cfg, dm): pointers compare by what they point to.
DeepEqual(m1, m2) == m1 = m2

\* A reconciliation that also forgets the runtime state of every target it
\* restarts.
syncMonitorsResetting(sch, desired) ==
    LET gone == {id \in DOMAIN sch.running : id \notin DOMAIN desired}
        changed == {id \in DOMAIN sch.running :
                       id \in DOMAIN desired /\ ~DeepEqual(sch.running[id].cfg, desired[id])}
        lp1 == CancelLoops(sch.running, sch.loops, gone \cup changed)
        run1 == [id \in DOMAIN sch.running \ (gone \cup changed) |-> sch.running[id]]
        st1 == [id \in DOMAIN sch.states \ (gone \cup changed) |-> sch.states[id]]
    IN  StartAll(Sched(run1, lp1, st1, sch.wg), desired, DOMAIN desired \ DOMAIN run1)

\* syncMonitors on the desired map built from a snapshot (s.mu held throughout).
syncMonitors(sch, desired) ==
    LET gone == {id \in DOMAIN sch.running : id \notin DOMAIN desired}
        changed == {id \in DOMAIN sch.running :
                       id \in DOMAIN desired /\ ~DeepEqual(sch.running[id].cfg, desired[id])}
        lp1 == CancelLoops(sch.running, sch.loops, gone \cup changed)
        run1 == [id \in DOMAIN sch.running \ (gone \cup changed) |-> sch.running[id]]
        st1 == [id \in DOMAIN sch.states \ gone |-> sch.states[id]]
    IN  StartAll(Sched(run1, lp1, st1, sch.wg), desired, DOMAIN desired \ DOMAIN run1)

\* The ids a reconciliation on desired starts a goroutine for.
SyncStarts(desired) ==
    LET keep == {id \in DOMAIN running :
                    id \in DOMAIN desired /\ DeepEqual(running[id].cfg, desired[id])}
    IN  DOMAIN desired \ keep

\* The reconciliation can start its goroutines within the bound on loops.
SyncFits(desired) == BagCardinality(loops) + Cardinality(SyncStarts(desired)) <= MaxLoops

\* A call of syncMonitors; extra is what the caller adds to wg in the same step.
ApplySync(desired, extra) ==
    LET r == syncMonitors(Sched(running, loops, states, wg), desired)
    IN  /\ SyncFits(desired)
        /\ running' = r.running
        /\ loops' = r.loops
        /\ states' = r.states
        /\ wg' = r.wg + extra

\* wg.Wait returns.
WaitDoneEarly(n) == n <= 1

\* scheduler.go:61
WaitDone(n) == n = 0

StopChClosed == stopPc # "idle"

\* The watcher's Get returns the configuration of the last Save, and the
\* reconciliation that follows it ends: what that makes of stale.
Fetched(st) == IF st = "saved" THEN "syncing" ELSE st
Synced(st) == IF st = "syncing" THEN "no" ELSE st
Subscribed == watcherPc \in {"select", "sync", "apply", "done"}

\* Manager.Save's broadcast: a non-blocking send to the watcher's channel.
Broadcast(n) == IF Subscribed THEN 1 ELSE n

Init ==
    /\ \E T \in Thresholds :
          liveMonitors = [i \in Probed |-> Monitor(i, "", 60, 5, T, 0, 0, <<>>)]
    /\ liveGroups = {}
    /\ now = 0
    /\ diskFault = "ok"
    /\ states = EmptyMap
    /\ maxHistoryPts = 1
    /\ fileHistory = <<>>
    /\ fileIncidents = <<>>
    /\ hmData = LoadStore(fileHistory, fileIncidents).data
    /\ hmIncidents = LoadStore(fileHistory, fileIncidents).incidents
    /\ lastEvents = <<>>
    /\ failRun = [i \in Ids |-> 0]
    /\ downRun = [i \in Ids |-> -1]
    /\ lastType = [i \in Ids |-> ""]
    /\ proc = ProcessUp
    /\ router = RouterIdle
    /\ LimiterIdle
    /\ ThreadsIdle
    /\ SystemAsLoaded
    /\ dumpers = NoDumpers
    /\ StoreUnobserved
    /\ SchedulerIdle
    /\ HandlerIdle
    /\ DumpIdle

\* Scheduler.Start, called by main before the HTTP server exists.
Start ==
    /\ watcherPc = "off"
    /\ ApplySync(Desired(liveMonitors), 1)
    /\ watcherPc' = "subscribe"
    /\ lastEvents' = <<>>
    /\ UNCHANGED <<now, envVars, sideVars, configVars, observerVars, historyVars, fileVars,
                   stopPc, snapVars, stopRace, webVars>>

\* watchChanges: cfgMgr.Subscribe(), made by the goroutine Start launched.
WatchSubscribe ==
    /\ watcherPc = "subscribe"
    /\ watcherPc' = "select"
    /\ lastEvents' = <<>>
    /\ UNCHANGED <<now, envVars, sideVars, configVars, states, observerVars, historyVars, fileVars,
                   running, loops, wg, stopPc, snapVars, stopRace, webVars>>

\* watchChanges: case <-s.stopCh (select picks any ready case).
WatchStop ==
    /\ watcherPc = "select"
    /\ StopChClosed
    /\ watcherPc' = "done"
    /\ wg' = wg - 1
    /\ lastEvents' = <<>>
    /\ UNCHANGED <<now, envVars, sideVars, configVars, states, observerVars, historyVars, fileVars,
                   running, loops, stopPc, snapVars, stopRace, webVars>>

\* watchChanges: case <-onChange, then cfg := s.cfgMgr.Get().
WatchRecv ==
    /\ watcherPc = "select"
    /\ onChange = 1
    /\ onChange' = 0
    /\ watchCfg' = LiveSnapshot
    /\ syncDesired' = syncDesired
    /\ watcherPc' = "sync"
    /\ stale' = Fetched(stale)
    /\ lastEvents' = <<>>
    /\ UNCHANGED <<now, envVars, sideVars, configVars, states, observerVars, historyVars, fileVars,
                   running, loops, wg, stopPc, stopRace, pendingRemove, changes>>

\* watchChanges: s.syncMonitors(cfg).
WatchSync ==
    /\ watcherPc = "sync"
    /\ ApplySync(Desired(SnapMonitors(watchCfg)), 0)
    /\ watcherPc' = "select"
    /\ watchCfg' = NoSnapshot
    /\ syncDesired' = syncDesired
    /\ stopRace' = (stopRace \/ (StopChClosed /\ SyncStarts(Desired(SnapMonitors(watchCfg))) # {}))
    /\ stale' = Synced(stale)
    /\ lastEvents' = <<>>
    /\ UNCHANGED <<now, envVars, sideVars, configVars, observerVars, historyVars, fileVars,
                   stopPc, onChange, pendingRemove, changes>>

\* Scheduler.Stop: close(s.stopCh).  main calls Stop after Start has returned.
StopClose ==
    /\ watcherPc # "off"
    /\ stopPc = "idle"
    /\ stopPc' = "closed"
    /\ lastEvents' = <<>>
    /\ UNCHANGED <<now, envVars, sideVars, configVars, states, observerVars, historyVars, fileVars,
                   running, loops, wg, watcherPc, snapVars, stopRace, webVars>>

\* Scheduler.Stop: under s.mu, cancel and delete every handle.
StopCancel ==
    /\ stopPc = "closed"
    /\ loops' = CancelLoops(running, loops, DOMAIN running)
    /\ running' = EmptyMap
    /\ stopPc' = "cancelled"
    /\ lastEvents' = <<>>
    /\ UNCHANGED <<now, envVars, sideVars, configVars, states, observerVars, historyVars, fileVars,
                   wg, watcherPc, snapVars, stopRace, webVars>>

\* Scheduler.Stop: s.wg.Wait() returns, and Stop with it.
StopReturn ==
    /\ stopPc = "cancelled"
    /\ WaitDone(wg)
    /\ stopPc' = "returned"
    /\ lastEvents' = <<>>
    /\ UNCHANGED <<now, envVars, sideVars, configVars, states, observerVars, historyVars, fileVars,
                   running, loops, wg, watcherPc, snapVars, stopRace, webVars>>

\* runProbe from a per-target goroutine: the probe's outcome is an input,
\* and the result goes to Process whether or not the loop's context has been
\* cancelled meanwhile.
RunProbe(l, up, lat) ==
    /\ up \/ FailAllowed(l.m.ID)
    /\ Process(l.m.ID, l.m.MaxRetries, l.m.ReminderInterval, up, lat)
    /\ loops' = (loops (-) One(l)) (+) One([l EXCEPT !.pc = "wait"])
    /\ UNCHANGED <<now, envVars, sideVars, configVars, observerVars,
                   running, wg, stopPc, watcherPc, snapVars, stopRace, webVars>>

\* The per-target goroutine: the first probe, made before any wait.
LoopFirstProbe ==
    \E l \in BagToSet(loops), up \in BOOLEAN, lat \in Latencies :
        l.pc = "probe" /\ RunProbe(l, up, lat)

\* The per-target goroutine: case <-timer.C (select may take it although
\* the context is done as well), runProbe, timer.Reset.
LoopTimer ==
    \E l \in BagToSet(loops), up \in BOOLEAN, lat \in Latencies :
        l.pc = "wait" /\ RunProbe(l, up, lat)

\* The per-target goroutine: case <-ctx.Done(), return, wg.Done().
LoopExit ==
    \E l \in BagToSet(loops) :
        /\ l.pc = "wait"
        /\ l.cancelled
        /\ loops' = loops (-) One(l)
        /\ wg' = wg - 1
        /\ lastEvents' = <<>>
        /\ UNCHANGED <<now, envVars, sideVars, configVars, states, observerVars, historyVars, fileVars,
                       running, stopPc, watcherPc, snapVars, stopRace, webVars>>

\* A handler's Get, its edit and its successful Save, with mons the monitor
\* list saved.  fresh: the handler built a new array (DeleteMonitor's
\* filtered); otherwise it wrote into the array Get gave it.
SaveMonitors(mons, fresh) ==
    /\ watcherPc # "off"
    /\ changes < MaxChanges
    /\ changes' = changes + 1
    /\ liveMonitors' = mons
    /\ watchCfg' = IF fresh THEN Detach(watchCfg) ELSE watchCfg
    /\ UNCHANGED <<liveGroups, syncDesired>>
    /\ onChange' = Broadcast(onChange)
    /\ stale' = "saved"
    /\ lastEvents' = <<>>

\* Handlers.ToggleMonitor.
ToggleMonitor ==
    \E id \in DOMAIN liveMonitors :
        /\ SaveMonitors([liveMonitors EXCEPT ![id].Enabled = <<~IsEnabled(liveMonitors[id])>>], FALSE)
        /\ UNCHANGED <<now, envVars, sideVars, states, observerVars, historyVars, fileVars,
                       schedVars, pendingRemove>>

\* Handlers.UpdateMonitor with a form that passes validation.
UpdateMonitor ==
    \E id \in DOMAIN liveMonitors, T \in Thresholds :
        /\ T # liveMonitors[id].MaxRetries
        /\ SaveMonitors([liveMonitors EXCEPT ![id].MaxRetries = T], FALSE)
        /\ UNCHANGED <<now, envVars, sideVars, states, observerVars, historyVars, fileVars,
                       schedVars, pendingRemove>>

\* Handlers.DeleteMonitor up to its Save.
DeleteMonitor ==
    \E id \in DOMAIN liveMonitors :
        /\ SaveMonitors(Del(liveMonitors, id), TRUE)
        /\ pendingRemove' = pendingRemove \cup {id}
        /\ UNCHANGED <<now, envVars, sideVars, states, observerVars, historyVars, fileVars, schedVars>>

\* Handlers.DeleteMonitor: h.histMgr.RemoveMonitor(id).
DeleteMonitorHistory ==
    \E id \in pendingRemove :
        /\ pendingRemove' = pendingRemove \ {id}
        /\ hmData' = RemoveMonitor(HM(hmData, hmIncidents), id).data
        /\ hmIncidents' = RemoveMonitor(HM(hmData, hmIncidents), id).incidents
        /\ lastEvents' = <<>>
        /\ UNCHANGED <<now, envVars, sideVars, configVars, states, observerVars, maxHistoryPts, fileVars,
                       schedVars, snapVars, onChange, changes, stale>>

\* The process ends (crash, kill or exit) and main runs again: the store is
\* loaded from the two files, Analyzer and Scheduler are constructed anew,
\* and the configuration is the one the last Save wrote.
ProcessRestart ==
    /\ watcherPc # "off"
    /\ changes < MaxChanges
    /\ changes' = changes + 1
    /\ states' = EmptyMap
    /\ hmData' = LoadStore(fileHistory, fileIncidents).data
    /\ hmIncidents' = LoadStore(fileHistory, fileIncidents).incidents
    /\ running' = EmptyMap
    /\ loops' = EmptyBag
    /\ wg' = 0
    /\ stopPc' = "idle"
    /\ watcherPc' = "off"
    /\ watchCfg' = NoSnapshot
    /\ syncDesired' = EmptyMap
    /\ onChange' = 0
    /\ pendingRemove' = {}
    /\ stale' = "no"
    /\ stopRace' = FALSE
    /\ lastEvents' = <<>>
    /\ UNCHANGED <<now, envVars, sideVars, configVars, observerVars, maxHistoryPts, fileVars>>

Next ==
    \/ Start \/ WatchSubscribe \/ WatchStop \/ WatchRecv \/ WatchSync
    \/ StopClose \/ StopCancel \/ StopReturn
    \/ LoopFirstProbe \/ LoopTimer \/ LoopExit
    \/ ToggleMonitor \/ UpdateMonitor \/ DeleteMonitor \/ DeleteMonitorHistory
    \/ ProcessRestart

Spec == Init /\ [][Next]_vars

\* ---------------------------------------------------------------- C4
\* C4: in every reachable state of the History Store each target has at most
\* one unresolved incident, whatever probe results, reconciliations (target
\* disabled and re-enabled, removed, restarted after an edit) and process
\* restarts came before.
C4_AtMostOneOpenIncident ==
    \A id \in DOMAIN hmIncidents : Cardinality(OpenIncidents(id)) <= 1

\* ---------------------------------------------------------------- C5
\* C5: once Scheduler.Stop has returned no per-target loop is running, and
\* none is started in any later state, however Stop interleaved with a
\* change notification the watcher had received or was about to receive.
C5_NoLoopAfterStop == stopPc = "returned" => loops = EmptyBag

\* Stop has returned although the watcher, handling a change, started a loop
\* after stopCh was closed.
C5_Witness == stopPc = "returned" /\ stopRace /\ changes > 0

\* ---------------------------------------------------------------- C7
\* The Scheduler has reconciled with the live configuration: the watcher is
\* back in its select with no signal pending, Stop has not been called, and
\* the handles are those of the enabled targets.
Reconciled ==
    /\ watcherPc = "select" /\ onChange = 0 /\ stopPc = "idle"
    /\ DOMAIN running = DOMAIN Desired(liveMonitors)

\* C7: once a target has been removed from (or disabled in) the
\* configuration and the Scheduler has reconciled, the Analyzer holds no
\* runtime state for it, whatever a probe of that target still in flight does.
C7_RemovedTargetHasNoState ==
    Reconciled =>
        \A id \in Ids : id \notin DOMAIN Desired(liveMonitors) => id \notin DOMAIN states

\* --------------------------------------------------------------- C12
\* The per-target goroutines alive for id: each of them calls runProbe, and
\* with it Analyzer.Process, until it takes the ctx.Done case of its select.
LoopsOf(id) == {l \in BagToSet(loops) : l.m.ID = id}
LoopCount(id) ==
    LET ls == LoopsOf(id)
        RECURSIVE Sum(_)
        Sum(S) == IF S = {} THEN 0
                  ELSE LET l == CHOOSE x \in S : TRUE IN CopiesIn(l, loops) + Sum(S \ {l})
    IN  Sum(ls)

\* C12: at any time at most one per-target loop can deliver probe results
\* for a given target id to the Analyzer, also across a restart after a
\* configuration change (old loop cancelled, new loop started for the id).
C12_OneDeliveringLoopPerTarget == \A id \in Ids : LoopCount(id) <= 1

\* --------------------------------------------------------------- C15
\* Fair scheduling: every goroutine that can take its next step takes it
\* (the watcher, the goroutine calling Stop, each per-target loop).  Every
\* probe ends within its timeout: a probe is one step.  A timer need not
\* fire, and requests and restarts come as they please.
AtFirstProbe == \E l \in BagToSet(loops) : l.pc = "probe"

\* WF_vars(LoopFirstProbe), with ENABLED written out: a goroutine that has
\* not made its first probe can always make it (with a successful result).
FairFirstProbe == []<>(~AtFirstProbe) \/ []<><<LoopFirstProbe>>_vars

SpecFair ==
    /\ Spec
    /\ WF_vars(WatchSubscribe) /\ WF_vars(WatchStop) /\ WF_vars(WatchRecv) /\ WF_vars(WatchSync)
    /\ WF_vars(StopCancel) /\ WF_vars(StopReturn)
    /\ WF_vars(LoopExit)
    /\ FairFirstProbe

\* C15: once Scheduler.Stop has been called it eventually returns (or the
\* process is ended from outside), also when a change notification is
\* pending or being reconciled at the moment of the call.
C15_StopReturns == (stopPc = "closed") ~> (stopPc \in {"returned", "idle"})

\* =========================================================================
\* SpecLoops: the per-target goroutines of two targets that each have one
\* notification channel, with Analyzer.Process followed from a.mu.Lock to
\* its return: the call of Router.Notify, and in it the channel's Send, is
\* made inside Process.  A probe or the processing of its result may panic.
\* =========================================================================

\* Monitor.NotifierIDs of each target: one channel.
NotifierIDs == [i \in Ids |-> <<"n1">>]

\* a.mu is held by the goroutine that is inside Process; the one step of
\* Process that takes time is the Send it makes through Router.Notify.
MuHeld == \E l \in BagToSet(loops) : l.pc = "send"

\* The goroutine started by startMonitor defers s.wg.Done() and nothing
\* else: no deferred function calls recover().
LoopRecovers == FALSE

InitLoops ==
    /\ liveMonitors = [i \in Ids |-> Monitor(i, "", 60, 5, 1, 0, 0, <<>>)]
    /\ liveGroups = {}
    /\ now = 0
    /\ diskFault = "ok"
    /\ states = EmptyMap
    /\ maxHistoryPts = 1
    /\ fileHistory = <<>>
    /\ fileIncidents = <<>>
    /\ hmData = LoadStore(fileHistory, fileIncidents).data
    /\ hmIncidents = LoadStore(fileHistory, fileIncidents).incidents
    /\ lastEvents = <<>>
    /\ failRun = [i \in Ids |-> 0]
    /\ downRun = [i \in Ids |-> -1]
    /\ lastType = [i \in Ids |-> ""]
    /\ proc = ProcessUp
    /\ router = RouterIdle
    /\ LimiterIdle
    /\ ThreadsIdle
    /\ SystemAsLoaded
    /\ dumpers = NoDumpers
    /\ StoreUnobserved
    /\ SchedulerIdle
    /\ HandlerIdle
    /\ DumpIdle

\* A goroutine's probe has returned its result (an input) and runProbe
\* calls Process: a.mu.Lock(), the bookkeeping, and Router.Notify when an
\* event is due.  Notify calls notifier.Send for each of the target's
\* channels and returns when the last Send has; only then does Process
\* return and unlock a.mu.
LoopProcessOf(l) ==
    \E up \in BOOLEAN, lat \in Latencies :
        /\ ~proc.exited
        /\ l.pc \in {"probe", "wait"}
        /\ ~MuHeld
        /\ up \/ FailAllowed(l.m.ID)
        /\ Process(l.m.ID, l.m.MaxRetries, l.m.ReminderInterval, up, lat)
        /\ loops' = (loops (-) One(l)) (+)
                     One([l EXCEPT !.pc = IF lastEvents' # <<>> /\ NotifierIDs[l.m.ID] # <<>>
                                          THEN "send" ELSE "wait"])
        /\ UNCHANGED <<now, envVars, sideVars, configVars, observerVars,
                       running, wg, stopPc, watcherPc, snapVars, stopRace, webVars>>

LoopProcess == \E l \in BagToSet(loops) : LoopProcessOf(l)

\* notifier.Send returns (delivered, failed, or timed out after 10 seconds),
\* and with it Notify, Process (a.mu unlocked) and runProbe.
SendDone ==
    \E l \in BagToSet(loops) :
        /\ ~proc.exited
        /\ l.pc = "send"
        /\ loops' = (loops (-) One(l)) (+) One([l EXCEPT !.pc = "wait"])
        /\ lastEvents' = <<>>
        /\ UNCHANGED <<now, envVars, sideVars, configVars, states, observerVars, historyVars, fileVars,
                       running, wg, stopPc, watcherPc, snapVars, stopRace, webVars>>

\* A panic in a goroutine's probe or in the processing of its result.  The
\* panic unwinds the goroutine's stack; unless a deferred function
\* recovers, the Go runtime ends the whole process, every goroutine with it.
LoopPanic ==
    \E l \in BagToSet(loops) :
        /\ ~proc.exited
        /\ proc' = [exited |-> ~LoopRecovers, panics |-> proc.panics \cup {l.m.ID}]
        /\ loops' = IF LoopRecovers THEN loops (-) One(l) ELSE EmptyBag
        /\ wg' = IF LoopRecovers THEN wg - 1 ELSE wg
        /\ lastEvents' = <<>>
        /\ UNCHANGED <<threads, liveSystem, dumpers, now, diskFault, router, authVars, storeObsVars, sideVars, configVars, states, observerVars,
                       historyVars, fileVars, running, stopPc, watcherPc, snapVars, stopRace, webVars>>

NextLoops == Start \/ LoopProcess \/ SendDone \/ LoopPanic

SpecLoops == InitLoops /\ [][NextLoops]_vars

\* --------------------------------------------------------------- C13
\* C13: a panic raised inside one target's loop (in its probe or in the
\* processing of its result) does not terminate the process: the loops of
\* all other targets keep running.
C13_PanicIsContained ==
    proc.panics # {} =>
        /\ ~proc.exited
        /\ \A id \in DOMAIN running \ proc.panics : LoopsOf(id) # {}

\* --------------------------------------------------------------- C14
\* C14: while a channel send for one target is pending, the probe result of
\* every other target can be processed by the Analyzer, and the alerting
\* target's own loop is not held up by the send: its next result can be
\* processed as well.
C14_SendDelaysNoOne ==
    \A l \in BagToSet(loops) :
        l.pc = "send" => \A k \in BagToSet(loops) : ENABLED LoopProcessOf(k)

\* =========================================================================
\* SpecConfig: the configuration Manager, one web handler at a time serving
\* a request step by step (Get, edit of the Config it got, Save), and the
\* Scheduler's watcher reconciling the handles.  The per-target goroutines
\* are the subject of Spec; here only the handles (Scheduler.running) are
\* followed.
\* =========================================================================

\* Validate for one monitor entry (the name, type and target checks are on
\* fields the requests here never touch).
ValidMonitor(m, groups) ==
    LET interval == IF m.Interval <= 0 THEN DefaultCheckInterval ELSE m.Interval
    IN  /\ m.ID # ""
        /\ m.GroupID = "" \/ m.GroupID \in groups
        /\ m.Timeout > 0
        /\ m.Timeout < interval
        /\ m.MaxRetries >= 0
        /\ m.RetryInterval >= 0
        /\ m.ReminderInterval >= 0

Validate(mons, groups) == \A id \in DOMAIN mons : ValidMonitor(mons[id], groups)

\* The requests: ToggleMonitor and UpdateMonitor for a monitor id,
\* DeleteGroup for a group id.
Requests ==
    {[kind |-> "toggle", id |-> i, timeout |-> 0] : i \in Ids}
    \cup {[kind |-> "update", id |-> i, timeout |-> t] : i \in Ids, t \in Timeouts}
    \cup {[kind |-> "deleteGroup", id |-> g, timeout |-> 0] : g \in Groups}

\* What the handler's assignments make of the monitor entries it got.
EditedMonitors(req, mons) ==
    IF req.kind = "toggle"
    THEN [mons EXCEPT ![req.id].Enabled = <<~IsEnabled(mons[req.id])>>]
    ELSE IF req.kind = "update"
    THEN [mons EXCEPT ![req.id].Timeout = req.timeout]
    ELSE [i \in DOMAIN mons |->
             IF mons[i].GroupID = req.id THEN [mons[i] EXCEPT !.GroupID = ""] ELSE mons[i]]

\* delete(cfg.ContactGroups, id): the map is the live configuration's map.
EditedGroups(req, groups) == IF req.kind = "deleteGroup" THEN groups \ {req.id} ELSE groups

InitConfig ==
    /\ \E e \in {<<>>, <<FALSE>>} :
          liveMonitors = [i \in Ids |->
                            IF i = "a" THEN Monitor(i, "g", 10, 5, 3, 0, 0, <<>>)
                            ELSE Monitor(i, "", 10, 5, 3, 0, 0, e)]
    /\ liveGroups = Groups
    /\ now = 0
    /\ diskFault \in {"ok", "failConfig"}
    /\ states = EmptyMap
    /\ maxHistoryPts = 1
    /\ fileHistory = <<>>
    /\ fileIncidents = <<>>
    /\ hmData = LoadStore(fileHistory, fileIncidents).data
    /\ hmIncidents = LoadStore(fileHistory, fileIncidents).incidents
    /\ lastEvents = <<>>
    /\ failRun = [i \in Ids |-> 0]
    /\ downRun = [i \in Ids |-> -1]
    /\ lastType = [i \in Ids |-> ""]
    /\ proc = ProcessUp
    /\ router = RouterIdle
    /\ LimiterIdle
    /\ ThreadsIdle
    /\ SystemAsLoaded
    /\ dumpers = NoDumpers
    /\ StoreUnobserved
    /\ SchedulerIdle
    /\ HandlerIdle
    /\ DumpIdle

\* syncMonitors' second and third loop, as far as the handles go.
ApplyHandles(desired) ==
    LET r == syncMonitors(Sched(running, EmptyBag, states, 0), desired)
    IN  /\ running' = r.running
        /\ states' = r.states

\* Scheduler.Start (main calls it before the HTTP server exists).
StartHandles ==
    /\ watcherPc = "off"
    /\ ApplyHandles(Desired(liveMonitors))
    /\ watcherPc' = "subscribe"
    /\ UNCHANGED <<now, envVars, sideVars, configVars, lastEvents, observerVars, historyVars,
                   fileVars, loops, wg, stopPc, stopRace, snapVars, webVars>>

\* syncMonitors called by the watcher: s.mu.Lock and the first loop, which
\* copies the enabled entries out of cfg.Monitors.
SyncRead ==
    /\ watcherPc = "sync"
    /\ syncDesired' = Desired(SnapMonitors(watchCfg))
    /\ watcherPc' = "apply"
    /\ UNCHANGED <<now, envVars, sideVars, configVars, analyzerVars, observerVars, historyVars,
                   fileVars, running, loops, wg, stopPc, stopRace, watchCfg, webVars>>

\* syncMonitors: the stop loop, the start loop and the return.
SyncApply ==
    /\ watcherPc = "apply"
    /\ ApplyHandles(syncDesired)
    /\ watcherPc' = "select"
    /\ syncDesired' = EmptyMap
    /\ watchCfg' = NoSnapshot
    /\ stale' = Synced(stale)
    /\ UNCHANGED <<now, envVars, sideVars, configVars, lastEvents, observerVars, historyVars,
                   fileVars, loops, wg, stopPc, stopRace, onChange, pendingRemove, changes>>

\* A handler's cfg := h.cfgMgr.Get() and its lookup of the id.
HandlerGet ==
    \E req \in Requests :
        /\ hPc = "idle"
        /\ watcherPc # "off"
        /\ changes < MaxRequests
        /\ IF req.kind = "deleteGroup" THEN req.id \in liveGroups
                                       ELSE req.id \in DOMAIN liveMonitors
        /\ hPc' = "edit"
        /\ hReq' = req
        /\ hCfg' = LiveSnapshot
        /\ hBefore' = [mons |-> liveMonitors, groups |-> liveGroups]
        /\ hDone' = "none"
        /\ changes' = changes + 1
        /\ UNCHANGED <<now, envVars, dumpVars, configVars, analyzerVars, observerVars,
                       historyVars, fileVars, schedVars, snapVars, onChange, pendingRemove, stale>>

\* The handler's assignments to cfg.Monitors[idx] and to cfg.ContactGroups:
\* they go to the array and the map the Config value holds.
HandlerEdit ==
    /\ hPc = "edit"
    /\ IF hCfg.live
       THEN /\ liveMonitors' = EditedMonitors(hReq, liveMonitors)
            /\ hCfg' = hCfg
       ELSE /\ liveMonitors' = liveMonitors
            /\ hCfg' = [hCfg EXCEPT !.mons = EditedMonitors(hReq, hCfg.mons)]
    /\ liveGroups' = EditedGroups(hReq, liveGroups)
    /\ hPc' = "save"
    /\ UNCHANGED <<now, envVars, dumpVars, analyzerVars, observerVars, historyVars, fileVars,
                   schedVars, snapVars, webVars, hReq, hBefore, hDone>>

\* Manager.Save accepts the handler's Config.
SaveAccepts == Validate(SnapMonitors(hCfg), liveGroups) /\ diskFault # "failConfig"

\* Manager.Save returns nil: the file is written, m.cfg = cfg, broadcast.
HandlerSaveOk ==
    /\ hPc = "save"
    /\ SaveAccepts
    /\ liveMonitors' = SnapMonitors(hCfg)
    /\ watchCfg' = IF hCfg.live THEN watchCfg ELSE Detach(watchCfg)
    /\ onChange' = Broadcast(onChange)
    /\ hPc' = "idle"
    /\ hReq' = <<>>
    /\ hCfg' = NoSnapshot
    /\ hBefore' = <<>>
    /\ hDone' = "ok"
    /\ stale' = "saved"
    /\ UNCHANGED <<now, envVars, dumpVars, liveGroups, analyzerVars, observerVars, historyVars,
                   fileVars, schedVars, syncDesired, pendingRemove, changes>>

\* Manager.Save returns an error (validation, or the write of the file).
HandlerSaveRejected ==
    /\ hPc = "save"
    /\ ~SaveAccepts
    /\ hPc' = "idle"
    /\ hReq' = <<>>
    /\ hCfg' = NoSnapshot
    /\ hBefore' = <<>>
    /\ hDone' = "rejected"
    /\ UNCHANGED <<now, envVars, dumpVars, configVars, analyzerVars, observerVars, historyVars,
                   fileVars, schedVars, snapVars, webVars>>

\* WatchSubscribe and WatchRecv are the watcher's steps of Spec.
NextConfig ==
    \/ StartHandles \/ WatchSubscribe \/ WatchRecv \/ SyncRead \/ SyncApply
    \/ HandlerGet \/ HandlerEdit \/ HandlerSaveOk \/ HandlerSaveRejected

SpecConfig == InitConfig /\ [][NextConfig]_vars

\* ---------------------------------------------------------------- C6
\* C6: whenever syncMonitors returns, at Start and after each change
\* notification, the ids that have a live handle are the enabled targets of
\* the configuration snapshot it was given, and each handle holds a
\* definition deep-equal to that snapshot's.
C6_HandlesMatchSnapshot ==
    [][((watcherPc = "off" /\ watcherPc' = "subscribe") \/
        (watcherPc = "apply" /\ watcherPc' = "select")) =>
          LET given == IF watcherPc = "off" THEN liveMonitors' ELSE SnapMonitors(watchCfg)
          IN  /\ DOMAIN running' = DOMAIN Desired(given)
              /\ \A id \in DOMAIN running' : DeepEqual(running'[id].cfg, given[id])
      ]_vars

\* ---------------------------------------------------------------- C8
\* C8: a Save that fails validation or whose disk write fails leaves the
\* live configuration as it was when the handler obtained its Config from
\* Get, sends no change signal and starts, stops or restarts no handle.
C8_RejectedSaveChangesNothing ==
    [][(hPc = "save" /\ hPc' = "idle" /\ hDone' = "rejected") =>
          /\ liveMonitors' = hBefore.mons
          /\ liveGroups' = hBefore.groups
          /\ onChange' = onChange
          /\ running' = running
      ]_vars

\* ---------------------------------------------------------------- C9
\* C9: a Config returned by Get is an independent snapshot: the live
\* configuration (monitor entries, contact-group map) changes only in the
\* step in which a Save succeeds.
C9_LiveChangesOnlyBySave ==
    [][(liveMonitors' # liveMonitors \/ liveGroups' # liveGroups) =>
          (hPc = "save" /\ hDone' = "ok")
      ]_vars

\* --------------------------------------------------------------- C21
\* C21: every live configuration (loaded at startup or accepted by Save)
\* has, for each target, 0 < timeout < effective interval, the effective
\* interval being the target's own interval if positive and the default
\* check interval otherwise; a Save with timeout = interval = 10 is
\* rejected.  Stated for the configuration in force while no request is
\* being served.
C21_LiveTimeoutBelowInterval ==
    hPc = "idle" =>
        \A id \in DOMAIN liveMonitors :
            LET m == liveMonitors[id]
                effective == IF m.Interval > 0 THEN m.Interval ELSE DefaultCheckInterval
            IN  0 < m.Timeout /\ m.Timeout < effective

\* --------------------------------------------------------------- C11
\* The watcher is a goroutine of its own and the Go scheduler runs every
\* runnable goroutine: each of its steps is taken if it stays possible.
\* Requests come as they please (none is ever required).
SpecConfigFair ==
    /\ SpecConfig
    /\ WF_vars(WatchSubscribe)
    /\ WF_vars(WatchRecv)
    /\ WF_vars(SyncRead)
    /\ WF_vars(SyncApply)

\* C11: after every successful Save the Scheduler eventually completes a
\* reconciliation against a configuration at least as recent as that Save,
\* also when further Saves come before the watcher has consumed an earlier
\* signal or while it reconciles.  (Save never waits for the watcher: no
\* step of the handler depends on the watcher's position.)
C11_SaveIsEventuallyReconciled == (stale = "saved") ~> (stale = "no")

\* =========================================================================
\* SpecDump: the History Store and its two files, with Dump followed step by
\* step through atomicWriteJSON.  The store changes while a Dump writes (Dump
\* releases hm.mu before it writes), a write can fail, and the process can
\* crash at any step and start again on what the disk holds.
\* =========================================================================

\* What a file holds once k chunks of the document doc have been written to
\* it: the document when all are, a truncated text before.
Written(doc, k) == IF k = DocChunks THEN <<doc>> ELSE <<[partial |-> doc, written |-> k]>>

\* json.Unmarshal accepts the file's contents.
Parses(f) == f = <<>> \/ "partial" \notin DOMAIN f[1]

\* A write that goes to the destination itself.
WriteTargetDirect(file) == file

\* history.go:345: the file atomicWriteJSON writes to is a fresh temporary file.
WriteTarget(file) == "tmp"

\* The contents of the three files after a write of contents c for file.
WriteTo(file, c) ==
    LET t == WriteTarget(file)
    IN  /\ dumpTmp' = IF t = "tmp" THEN c ELSE dumpTmp
        /\ fileHistory' = IF t = "history" THEN c ELSE fileHistory
        /\ fileIncidents' = IF t = "incidents" THEN c ELSE fileIncidents

\* The document Dump hands to atomicWriteJSON for file.
DumpDoc(file) == IF file = "history" THEN lastDump.newH[1] ELSE lastDump.newI[1]

\* The write to file fails on this disk.
Faulty(file) ==
    \/ file = "history" /\ diskFault = "failHistory"
    \/ file = "incidents" /\ diskFault = "failIncidents"

InitDump ==
    /\ liveMonitors = [i \in Probed |-> Monitor(i, "", 60, 5, 1, 0, 0, <<>>)]
    /\ liveGroups = {}
    /\ now = 0
    /\ diskFault \in DumpOutcomes
    /\ states = EmptyMap
    /\ maxHistoryPts = 1
    /\ fileHistory = <<>>
    /\ fileIncidents = <<>>
    /\ hmData = LoadStore(fileHistory, fileIncidents).data
    /\ hmIncidents = LoadStore(fileHistory, fileIncidents).incidents
    /\ lastEvents = <<>>
    /\ failRun = [i \in Ids |-> 0]
    /\ downRun = [i \in Ids |-> -1]
    /\ lastType = [i \in Ids |-> ""]
    /\ proc = ProcessUp
    /\ router = RouterIdle
    /\ LimiterIdle
    /\ ThreadsIdle
    /\ SystemAsLoaded
    /\ dumpers = NoDumpers
    /\ StoreUnobserved
    /\ SchedulerIdle
    /\ HandlerIdle
    /\ DumpIdle

\* Dump up to hm.mu.RUnlock(): the two documents are copied from the store.
DumpBegin ==
    /\ dumpPc = NoDump
    /\ lastDump' = [oldH |-> fileHistory, oldI |-> fileIncidents,
                    newH |-> <<DumpHistoryDoc(HM(hmData, hmIncidents), now)>>,
                    newI |-> <<DumpIncidentsDoc(HM(hmData, hmIncidents), now)>>]
    /\ dumpPc' = DumpAt("history", "create", 0)
    /\ lastCrash' = NoDump
    /\ UNCHANGED <<now, envVars, handlerVars, configVars, analyzerVars, observerVars,
                   historyVars, fileVars, schedVars, snapVars, webVars, dumpTmp>>

\* atomicWriteJSON: os.CreateTemp.
AtomicCreateTemp ==
    /\ dumpPc.step = "create"
    /\ WriteTo(dumpPc.file, Written(DumpDoc(dumpPc.file), 0))
    /\ dumpPc' = [dumpPc EXCEPT !.step = "write"]
    /\ UNCHANGED <<now, envVars, handlerVars, configVars, analyzerVars, observerVars,
                   historyVars, schedVars, snapVars, webVars, lastDump, lastCrash>>

\* atomicWriteJSON: tmp.Write(bs), one chunk of it reaching the file.
AtomicWrite ==
    /\ dumpPc.step = "write"
    /\ WriteTo(dumpPc.file, Written(DumpDoc(dumpPc.file), dumpPc.written + 1))
    /\ dumpPc' = IF dumpPc.written + 1 = DocChunks
                 THEN [dumpPc EXCEPT !.step = "sync", !.written = DocChunks]
                 ELSE [dumpPc EXCEPT !.written = @ + 1]
    /\ UNCHANGED <<now, envVars, handlerVars, configVars, analyzerVars, observerVars,
                   historyVars, schedVars, snapVars, webVars, lastDump, lastCrash>>

\* atomicWriteJSON: tmp.Sync().
AtomicSync ==
    /\ dumpPc.step = "sync"
    /\ dumpPc' = [dumpPc EXCEPT !.step = "close"]
    /\ UNCHANGED <<now, envVars, handlerVars, configVars, analyzerVars, observerVars,
                   historyVars, fileVars, schedVars, snapVars, webVars,
                   dumpTmp, lastDump, lastCrash>>

\* atomicWriteJSON: tmp.Close().
AtomicClose ==
    /\ dumpPc.step = "close"
    /\ dumpPc' = [dumpPc EXCEPT !.step = "rename"]
    /\ UNCHANGED <<now, envVars, handlerVars, configVars, analyzerVars, observerVars,
                   historyVars, fileVars, schedVars, snapVars, webVars,
                   dumpTmp, lastDump, lastCrash>>

\* atomicWriteJSON: os.Rename(tmpName, filePath), and Dump going on to the
\* second file or returning.
AtomicRename ==
    /\ dumpPc.step = "rename"
    /\ ~Faulty(dumpPc.file)
    /\ fileHistory' = IF dumpPc.file = "history" /\ dumpTmp # <<>> THEN dumpTmp ELSE fileHistory
    /\ fileIncidents' = IF dumpPc.file = "incidents" /\ dumpTmp # <<>> THEN dumpTmp
                        ELSE fileIncidents
    /\ dumpTmp' = <<>>
    /\ dumpPc' = IF dumpPc.file = "history" THEN DumpAt("incidents", "create", 0) ELSE NoDump
    /\ lastDump' = IF dumpPc.file = "history" THEN lastDump
                   ELSE Settled(fileHistory', fileIncidents')
    /\ UNCHANGED <<now, envVars, handlerVars, configVars, analyzerVars, observerVars,
                   historyVars, schedVars, snapVars, webVars, lastCrash>>

\* atomicWriteJSON returns an error at the step it is at: the deferred
\* function removes the temporary file and Dump returns the error.
AtomicFail ==
    /\ dumpPc # NoDump
    /\ Faulty(dumpPc.file)
    /\ dumpTmp' = <<>>
    /\ dumpPc' = NoDump
    /\ lastDump' = Settled(fileHistory, fileIncidents)
    /\ UNCHANGED <<now, envVars, handlerVars, configVars, analyzerVars, observerVars,
                   historyVars, fileVars, schedVars, snapVars, webVars, lastCrash>>

\* The store's mutators, called while a Dump may be writing.
StoreRecordProbe ==
    \E id \in Probed, up \in BOOLEAN, lat \in Latencies :
        LET hm == RecordProbe(HM(hmData, hmIncidents), id, lat, up, now, maxHistoryPts)
        IN  /\ hmData' = hm.data
            /\ hmIncidents' = hm.incidents
            /\ UNCHANGED <<now, envVars, sideVars, configVars, analyzerVars, observerVars,
                           maxHistoryPts, fileVars, schedVars, snapVars, webVars>>

StoreRecordDown ==
    \E id \in Probed :
        LET hm == RecordDown(HM(hmData, hmIncidents), id, ProbeError, now)
        IN  /\ IncidentCountOf(id) < MaxIncidents
            /\ hmData' = hm.data
            /\ hmIncidents' = hm.incidents
            /\ UNCHANGED <<now, envVars, sideVars, configVars, analyzerVars, observerVars,
                           maxHistoryPts, fileVars, schedVars, snapVars, webVars>>

\* The process dies while a Dump is in progress.  The temporary file stays
\* behind under its random name and is never read again.  main runs again;
\* NewHistoryManager fails on a file that does not parse, and then the
\* process has no store.
Crash ==
    /\ dumpPc # NoDump
    /\ lastCrash' = dumpPc
    /\ dumpPc' = NoDump
    /\ dumpTmp' = <<>>
    /\ IF Parses(fileHistory) /\ Parses(fileIncidents)
       THEN /\ hmData' = LoadStore(fileHistory, fileIncidents).data
            /\ hmIncidents' = LoadStore(fileHistory, fileIncidents).incidents
       ELSE /\ hmData' = NewHistoryData
            /\ hmIncidents' = EmptyMap
    /\ UNCHANGED <<now, envVars, handlerVars, configVars, analyzerVars, observerVars,
                   maxHistoryPts, fileVars, schedVars, snapVars, webVars, lastDump>>

NextDump ==
    \/ DumpBegin \/ AtomicCreateTemp \/ AtomicWrite \/ AtomicSync \/ AtomicClose
    \/ AtomicRename \/ AtomicFail \/ Crash
    \/ StoreRecordProbe \/ StoreRecordDown

SpecDump == InitDump /\ [][NextDump]_vars

\* --------------------------------------------------------------- C10
\* C10: whatever the step at which the process crashes during a dump, each
\* of the two destination files holds either the complete contents it had
\* when the dump began or the complete document the dump writes to it.
C10_FilesCompleteOldOrNew ==
    /\ fileHistory \in {lastDump.oldH, lastDump.newH}
    /\ fileIncidents \in {lastDump.oldI, lastDump.newI}

\* The process crashed half-way through the write for incidents.json, after
\* history.json had been replaced; the two documents differ from the old ones.
C10_Witness ==
    /\ lastCrash = DumpAt("incidents", "write", 1)
    /\ dumpPc = NoDump
    /\ fileHistory = lastDump.newH /\ lastDump.newH # lastDump.oldH
    /\ fileIncidents = lastDump.oldI /\ lastDump.newI # lastDump.oldI

\* =========================================================================
\* SpecStore: the History Store of the target "a" through its calls, over
\* more than the 30 days of incident retention: RecordProbe, RecordDown,
\* RecordUp, RemoveMonitor, Dump (as one call, ending as the disk lets it)
\* and NewHistoryManager on the two files (the process starts again).
\* =========================================================================

LatencyOf(data, id) ==
    IF id \in DOMAIN data.Monitors THEN data.Monitors[id].LatencyHistory ELSE <<>>

IncidentsOf(incs, id) == IF id \in DOMAIN incs THEN incs[id] ELSE <<>>

InitStore ==
    /\ liveMonitors = [i \in Probed |-> Monitor(i, "", 60, 5, 1, 0, 0, <<>>)]
    /\ liveGroups = {}
    /\ now = 0
    /\ diskFault = "ok"
    /\ states = EmptyMap
    /\ maxHistoryPts \in 1..MaxPts
    /\ fileHistory = <<>>
    /\ fileIncidents = <<>>
    /\ hmData = LoadStore(fileHistory, fileIncidents).data
    /\ hmIncidents = LoadStore(fileHistory, fileIncidents).incidents
    /\ lastEvents = <<>>
    /\ failRun = [i \in Ids |-> 0]
    /\ downRun = [i \in Ids |-> -1]
    /\ lastType = [i \in Ids |-> ""]
    /\ proc = ProcessUp
    /\ router = RouterIdle
    /\ LimiterIdle
    /\ ThreadsIdle
    /\ SystemAsLoaded
    /\ dumpers = NoDumpers
    /\ StoreUnobserved
    /\ SchedulerIdle
    /\ HandlerIdle
    /\ DumpIdle

\* The calls are followed up to the first Dump that writes both files and
\* the start of the next process on them.
BeforeDump == atDump = <<>>

\* The store after a call, and the call as lastOp.
StoreBecomes(hm, op) ==
    /\ hmData' = hm.data
    /\ hmIncidents' = hm.incidents
    /\ lastOp' = op

OpRecordProbe ==
    \E id \in Probed, up \in BOOLEAN, lat \in Latencies :
        /\ BeforeDump
        /\ StoreBecomes(RecordProbe(HM(hmData, hmIncidents), id, lat, up, now, maxHistoryPts),
                        StoreOp("probe", id, Len(LatencyOf(hmData, id))))
        /\ UNCHANGED <<threads, liveSystem, dumpers, now, diskFault, proc, router, authVars, atDump, got, sideVars, configVars, analyzerVars,
                       observerVars, maxHistoryPts, fileVars, schedVars, snapVars, webVars>>

\* runProbe calls RecordProbe and then Process, which calls RecordDown after
\* a failed probe and RecordUp after a successful one.
JustProbed(id, up) ==
    /\ lastOp.op = "probe"
    /\ lastOp.id = id
    /\ hmData.Monitors[id].IsUp = up

OpRecordDown ==
    \E id \in Probed :
        /\ BeforeDump
        /\ JustProbed(id, FALSE)
        /\ IncidentCountOf(id) < MaxIncidents
        /\ StoreBecomes(RecordDown(HM(hmData, hmIncidents), id, ProbeError, now),
                        StoreOp("other", id, 0))
        /\ UNCHANGED <<threads, liveSystem, dumpers, now, diskFault, proc, router, authVars, atDump, got, sideVars, configVars, analyzerVars,
                       observerVars, maxHistoryPts, fileVars, schedVars, snapVars, webVars>>

OpRecordUp ==
    \E id \in Probed :
        /\ BeforeDump
        /\ JustProbed(id, TRUE)
        /\ StoreBecomes(RecordUp(HM(hmData, hmIncidents), id, now), StoreOp("other", id, 0))
        /\ UNCHANGED <<threads, liveSystem, dumpers, now, diskFault, proc, router, authVars, atDump, got, sideVars, configVars, analyzerVars,
                       observerVars, maxHistoryPts, fileVars, schedVars, snapVars, webVars>>

OpRemoveMonitor ==
    \E id \in Probed :
        /\ BeforeDump
        /\ StoreBecomes(RemoveMonitor(HM(hmData, hmIncidents), id), StoreOp("other", id, 0))
        /\ UNCHANGED <<threads, liveSystem, dumpers, now, diskFault, proc, router, authVars, atDump, got, sideVars, configVars, analyzerVars,
                       observerVars, maxHistoryPts, fileVars, schedVars, snapVars, webVars>>

\* Dump: it returns nil when both files have been written.
OpDump ==
    LET hm == HM(hmData, hmIncidents)
        f == DumpFiles(hm, now, diskFault, fileHistory, fileIncidents)
    IN  /\ BeforeDump
        /\ fileHistory' = f.history
        /\ fileIncidents' = f.incidents
        /\ atDump' = IF diskFault = "ok" THEN <<[hm |-> hm, time |-> now]>> ELSE <<>>
        /\ lastOp' = StoreOp(IF diskFault = "ok" THEN "dump" ELSE "dumpFailed", "", 0)
        /\ UNCHANGED <<threads, liveSystem, dumpers, now, diskFault, proc, router, authVars, got, sideVars, configVars, analyzerVars,
                       observerVars, historyVars, schedVars, snapVars, webVars>>

\* NewHistoryManager(history.json, incidents.json, maxHistoryPoints).
OpLoad ==
    /\ lastOp.op # "load"
    /\ StoreBecomes(LoadStore(fileHistory, fileIncidents), StoreOp("load", "", 0))
    /\ UNCHANGED <<threads, liveSystem, dumpers, now, diskFault, proc, router, authVars, atDump, got, sideVars, configVars, analyzerVars,
                   observerVars, maxHistoryPts, fileVars, schedVars, snapVars, webVars>>

\* The clock readings followed: the start, a second later, and the same two
\* after the 30 days of incident retention.
StoreTimes == {0, 1, incidentRetentionSec, incidentRetentionSec + 1}

\* Time passes.
OpAdvance ==
    \E t \in StoreTimes :
        /\ BeforeDump
        /\ t > now
        /\ now' = t
        /\ lastOp' = StoreOp("other", "", 0)
        /\ UNCHANGED <<threads, liveSystem, dumpers, diskFault, proc, router, authVars, atDump, got, sideVars, configVars, analyzerVars,
                       observerVars, historyVars, fileVars, schedVars, snapVars, webVars>>

NextStore ==
    \/ OpRecordProbe \/ OpRecordDown \/ OpRecordUp \/ OpRemoveMonitor
    \/ OpDump \/ OpLoad \/ OpAdvance

SpecStore == InitStore /\ [][NextStore]_vars

\* C16: at dump time an incident is left out of incidents.json exactly when
\* it is resolved and started more than 30 days before the dump; unresolved
\* incidents of any age and incidents started within the last 30 days
\* (boundary included) are written, and the store constructed from the files
\* holds exactly the written ones.
C16_EvictionAtDump ==
    atDump # <<>> =>
        LET mem == atDump[1].hm.incidents
            t == atDump[1].time
            evictable(inc) == inc.ResolvedAt # <<>> /\ t - inc.StartedAt > incidentRetentionSec
            Among(inc, incs) == \E j \in 1..Len(incs) : incs[j] = inc
        IN  \A id \in DOMAIN mem : \A i \in 1..Len(mem[id]) :
                /\ Among(mem[id][i], IncidentsOf(fileIncidents[1].Monitors, id))
                       <=> ~evictable(mem[id][i])
                /\ lastOp.op = "load" =>
                       (Among(mem[id][i], IncidentsOf(hmIncidents, id))
                           <=> ~evictable(mem[id][i]))

\* C20: once a target is deleted (the configuration saved without it and
\* RemoveMonitor called) and its loop has exited, the store holds no latency
\* history and no incidents for its id and a dump does not contain it,
\* however the deletion interleaves with the target's in-flight or pending
\* probe.  Every configured id is in Init's configuration, so an id that is
\* in neither liveMonitors nor pendingRemove has been deleted.
C20_DeletedTargetLeavesNoHistory ==
    \A id \in Probed :
        (/\ id \notin DOMAIN liveMonitors
         /\ id \notin pendingRemove
         /\ LoopsOf(id) = {})
        => /\ id \notin DOMAIN hmData.Monitors
           /\ id \notin DOMAIN hmIncidents
           /\ id \notin DOMAIN DumpHistoryDoc(HM(hmData, hmIncidents), now).Monitors
           /\ id \notin DOMAIN DumpIncidentsDoc(HM(hmData, hmIncidents), now).Monitors

\* ------------------------------------------------ readers of the store
\* GetMonitor and GetAll return cp := *h with cp.Incidents = hm.incidents[id].
\* The copy of the struct copies the slice headers: cp.LatencyHistory and
\* cp.Incidents point into the arrays the store keeps using.  got holds the
\* value the caller has, whether each of its two slices still shares its
\* array with the store, and by how many points the store's latency window
\* has moved on since.
CopyOf(h, incs) ==
    [Uptime24h |-> h.Uptime24h, Uptime7d |-> h.Uptime7d, Uptime30d |-> h.Uptime30d,
     LatencyHistory |-> h.LatencyHistory, Incidents |-> incs,
     LastCheckTime |-> h.LastCheckTime, IsUp |-> h.IsUp]

\* hm.incidents[id] of an id without incidents is nil, and the caller gets a
\* fresh empty slice.
Returned(id) ==
    [id |-> id,
     h |-> CopyOf(hmData.Monitors[id], IncidentsOf(hmIncidents, id)),
     incAlias |-> id \in DOMAIN hmIncidents,
     latAlias |-> TRUE,
     latOff |-> 0]

Holds(id) == got # <<>> /\ got[1].id = id

\* The calls and assignments that follow the Get are counted in lastOp.n, up
\* to MaxLater.
Later == IF got = <<>> THEN 0 ELSE lastOp.n + 1

RdGet ==
    \E id \in DOMAIN hmData.Monitors :
        /\ got = <<>>
        /\ got' = <<Returned(id)>>
        /\ lastOp' = StoreOp("get", id, 0)
        /\ UNCHANGED <<threads, liveSystem, dumpers, now, diskFault, proc, router, authVars, atDump, sideVars, configVars, analyzerVars,
                       observerVars, historyVars, fileVars, schedVars, snapVars, webVars>>

\* append writes past the end of the caller's slice; when the array is full
\* it moves the store to a new array (moved) and the sharing ends.
RdRecordProbe ==
    \E id \in Probed, up \in BOOLEAN, lat \in Latencies, moved \in BOOLEAN :
        LET n == Len(LatencyOf(hmData, id))
            excess == IF n + 1 > maxHistoryPts THEN n + 1 - maxHistoryPts ELSE 0
        IN  /\ Later <= MaxLater
            /\ StoreBecomes(RecordProbe(HM(hmData, hmIncidents), id, lat, up, now,
                                        maxHistoryPts),
                            StoreOp("store", id, Later))
            /\ got' = IF Holds(id) /\ got[1].latAlias
                      THEN <<[got[1] EXCEPT !.latAlias = ~moved, !.latOff = @ + excess]>>
                      ELSE got
            /\ UNCHANGED <<threads, liveSystem, dumpers, now, diskFault, proc, router, authVars, atDump, sideVars, configVars, analyzerVars,
                           observerVars, maxHistoryPts, fileVars, schedVars, snapVars,
                           webVars>>

RdRecordDown ==
    \E id \in Probed, moved \in BOOLEAN :
        /\ Later <= MaxLater
        /\ IncidentCountOf(id) < MaxIncidents
        /\ StoreBecomes(RecordDown(HM(hmData, hmIncidents), id, ProbeError, now),
                        StoreOp("store", id, Later))
        /\ got' = IF Holds(id) /\ got[1].incAlias
                  THEN <<[got[1] EXCEPT !.incAlias = ~moved]>>
                  ELSE got
        /\ UNCHANGED <<threads, liveSystem, dumpers, now, diskFault, proc, router, authVars, atDump, sideVars, configVars, analyzerVars,
                       observerVars, maxHistoryPts, fileVars, schedVars, snapVars, webVars>>

\* incs[i].ResolvedAt = &now writes into the array: the caller's slice shows
\* it when it shares the array and reaches index i.
RdRecordUp ==
    \E id \in Probed :
        LET i == LatestOpen(IncidentsOf(hmIncidents, id))
        IN  /\ Later <= MaxLater
            /\ StoreBecomes(RecordUp(HM(hmData, hmIncidents), id, now),
                            StoreOp("store", id, Later))
            /\ got' = IF Holds(id) /\ got[1].incAlias /\ i >= 1
                         /\ i <= Len(got[1].h.Incidents)
                      THEN <<[got[1] EXCEPT !.h.Incidents[i] = ResolveIncident(@, now)]>>
                      ELSE got
            /\ UNCHANGED <<threads, liveSystem, dumpers, now, diskFault, proc, router, authVars, atDump, sideVars, configVars, analyzerVars,
                           observerVars, maxHistoryPts, fileVars, schedVars, snapVars,
                           webVars>>

\* delete drops the store's references; the arrays stay with the caller.
RdRemoveMonitor ==
    \E id \in Probed :
        /\ Later <= MaxLater
        /\ StoreBecomes(RemoveMonitor(HM(hmData, hmIncidents), id), StoreOp("store", id, Later))
        /\ got' = IF Holds(id)
                  THEN <<[got[1] EXCEPT !.incAlias = FALSE, !.latAlias = FALSE]>>
                  ELSE got
        /\ UNCHANGED <<threads, liveSystem, dumpers, now, diskFault, proc, router, authVars, atDump, sideVars, configVars, analyzerVars,
                       observerVars, maxHistoryPts, fileVars, schedVars, snapVars, webVars>>

\* The caller assigns to a field of one of its incidents.
RdCallerEditsIncident ==
    \E i \in 1..MaxIncidents :
        /\ got # <<>>
        /\ Later <= MaxLater
        /\ i <= Len(got[1].h.Incidents)
        /\ got[1].h.Incidents[i].Reason # "edited"
        /\ got' = <<[got[1] EXCEPT !.h.Incidents[i].Reason = "edited"]>>
        /\ hmIncidents' = IF got[1].incAlias
                          THEN [hmIncidents EXCEPT ![got[1].id][i].Reason = "edited"]
                          ELSE hmIncidents
        /\ lastOp' = StoreOp("caller", got[1].id, Later)
        /\ UNCHANGED <<threads, liveSystem, dumpers, now, diskFault, proc, router, authVars, atDump, sideVars, configVars, analyzerVars,
                       observerVars, hmData, maxHistoryPts, fileVars, schedVars, snapVars,
                       webVars>>

\* The caller assigns to a field of one of its latency points.
RdCallerEditsLatency ==
    \E i \in 1..MaxPts :
        LET j == i - got[1].latOff
        IN  /\ got # <<>>
            /\ Later <= MaxLater
            /\ i <= Len(got[1].h.LatencyHistory)
            /\ got[1].h.LatencyHistory[i].Latency # 0
            /\ got' = <<[got[1] EXCEPT !.h.LatencyHistory[i].Latency = 0]>>
            /\ hmData' = IF got[1].latAlias /\ j >= 1
                         THEN [hmData EXCEPT
                                 !.Monitors[got[1].id].LatencyHistory[j].Latency = 0]
                         ELSE hmData
            /\ lastOp' = StoreOp("caller", got[1].id, Later)
            /\ UNCHANGED <<threads, liveSystem, dumpers, now, diskFault, proc, router, authVars, atDump, sideVars, configVars, analyzerVars,
                           observerVars, hmIncidents, maxHistoryPts, fileVars, schedVars,
                           snapVars, webVars>>

NextReaders ==
    \/ RdGet \/ RdRecordProbe \/ RdRecordDown \/ RdRecordUp \/ RdRemoveMonitor
    \/ RdCallerEditsIncident \/ RdCallerEditsLatency

SpecReaders == InitStore /\ [][NextReaders]_vars

\* C19: a value returned by GetMonitor or GetAll is a deep copy: a later
\* RecordProbe, RecordDown, RecordUp or RemoveMonitor call does not change
\* it, and a change the caller makes to its latency points or incidents
\* does not change the store.
C19_ReturnedValueIsDeepCopy ==
    [][(got # <<>> /\ got' # <<>>) =>
          /\ lastOp'.op = "store" => got'[1].h = got[1].h
          /\ lastOp'.op = "caller" => (hmData' = hmData /\ hmIncidents' = hmIncidents)]_vars

\* C18: a RecordProbe call leaves the target's latency sequence at most
\* maxHistoryPts long and equal to the newest points of the former sequence
\* followed by the point just recorded, in recording order: appending to a
\* full sequence drops its oldest point.
C18_RingBufferKeepsNewest ==
    [][lastOp'.op = "probe" =>
          LET old == LatencyOf(hmData, lastOp'.id)
              new == LatencyOf(hmData', lastOp'.id)
          IN  /\ Len(new) >= 1
              /\ Len(new) <= maxHistoryPts
              /\ new[Len(new)].Time = now
              /\ LET full == Append(old, new[Len(new)])
                 IN  /\ Len(new) = Min(Len(full), maxHistoryPts)
                     /\ new = SubSeq(full, Len(full) - Len(new) + 1, Len(full))]_vars

\* A probe has been recorded on a full sequence of two different points.
C18_Witness ==
    /\ lastOp.op = "probe"
    /\ maxHistoryPts >= 2
    /\ lastOp.n = maxHistoryPts
    /\ LatencyOf(hmData, lastOp.id)[1] # LatencyOf(hmData, lastOp.id)[2]

\* C17: a successful Dump followed by the construction of a new store from
\* the two files yields, for every target, the three uptime figures, the
\* latency sequence, the last-check time and the up flag that were in memory
\* at the dump, and the in-memory incident list without its evictable
\* incidents.
C17_DumpReloadRoundTrip ==
    (atDump # <<>> /\ lastOp.op = "load") =>
        LET mem == atDump[1].hm
            t == atDump[1].time
            kept(inc) == ~(inc.ResolvedAt # <<>> /\ t - inc.StartedAt > incidentRetentionSec)
        IN  /\ DOMAIN hmData.Monitors = DOMAIN mem.data.Monitors
            /\ \A id \in DOMAIN mem.data.Monitors :
                   LET was == mem.data.Monitors[id]
                       is == hmData.Monitors[id]
                   IN  /\ FloatEq(is.Uptime24h, was.Uptime24h)
                       /\ FloatEq(is.Uptime7d, was.Uptime7d)
                       /\ FloatEq(is.Uptime30d, was.Uptime30d)
                       /\ is.LatencyHistory = was.LatencyHistory
                       /\ is.LastCheckTime = was.LastCheckTime
                       /\ is.IsUp = was.IsUp
            /\ \A id \in DOMAIN mem.incidents \cup DOMAIN hmIncidents :
                   IncidentsOf(hmIncidents, id) = SelectSeq(IncidentsOf(mem.incidents, id), kept)

\* A reload of a target with two latency points, an uptime figure between 0
\* and 100, one evicted incident and one kept.
C17_Witness ==
    /\ atDump # <<>>
    /\ lastOp.op = "load"
    /\ \E id \in DOMAIN atDump[1].hm.data.Monitors :
           LET was == atDump[1].hm.data.Monitors[id]
           IN  /\ Len(was.LatencyHistory) >= 2
               /\ 0 < was.Uptime30d[1]
               /\ was.Uptime30d[1] < 100 * was.Uptime30d[2]
               /\ Len(IncidentsOf(hmIncidents, id)) >= 1
               /\ Len(IncidentsOf(hmIncidents, id)) < Len(IncidentsOf(atDump[1].hm.incidents, id))

\* After dump and reload: a resolved incident older than 30 days is gone and
\* an unresolved incident older than 30 days is still there.
C16_Witness ==
    /\ atDump # <<>>
    /\ lastOp.op = "load"
    /\ \E id \in DOMAIN atDump[1].hm.incidents :
           LET mem == atDump[1].hm.incidents[id]
               old(inc) == atDump[1].time - inc.StartedAt > incidentRetentionSec
               Among(inc, incs) == \E j \in 1..Len(incs) : incs[j] = inc
           IN  /\ \E i \in 1..Len(mem) :
                      /\ mem[i].ResolvedAt # <<>> /\ old(mem[i])
                      /\ ~Among(mem[i], IncidentsOf(hmIncidents, id))
               /\ \E i \in 1..Len(mem) :
                      /\ mem[i].ResolvedAt = <<>> /\ old(mem[i])
                      /\ Among(mem[i], IncidentsOf(hmIncidents, id))

\* --------------------------------------------------------------- C22
\* C22: for every monitor configuration that validation accepts, a failed
\* probe result that follows a successful one (and is followed by a
\* successful one) emits no alert event and opens no incident.  The
\* predecessor is read from the store's latest latency point, which carries
\* the raw result.
C22_IsolatedFailureIsSilent ==
    [][\A id \in Probed :
          (/\ ValidMonitor(liveMonitors[id], liveGroups)
           /\ LatencyOf(hmData, id) # <<>>
           /\ LatencyOf(hmData, id)[Len(LatencyOf(hmData, id))].Up
           /\ failRun[id] = 0
           /\ failRun'[id] = 1)
          => /\ lastEvents' = <<>>
             /\ IncidentsOf(hmIncidents', id) = IncidentsOf(hmIncidents, id)
      ]_vars

\* =========================================================================
\* SpecProbes: the Analyzer of SpecAnalyzer on a store that keeps MaxPts
\* latency points per target and a disk whose writes succeed, so that the
\* last results and every dump can be read from the state.
\* =========================================================================
InitProbes ==
    /\ \E T \in Thresholds, R \in Cadences :
          liveMonitors = [i \in Probed |-> Monitor(i, "", 60, 5, T, 0, R, <<>>)]
    /\ liveGroups = {}
    /\ now = 0
    /\ diskFault = "ok"
    /\ states = EmptyMap
    /\ maxHistoryPts = MaxPts
    /\ fileHistory = <<>>
    /\ fileIncidents = <<>>
    /\ hmData = LoadStore(fileHistory, fileIncidents).data
    /\ hmIncidents = LoadStore(fileHistory, fileIncidents).incidents
    /\ lastEvents = <<>>
    /\ failRun = [i \in Ids |-> 0]
    /\ downRun = [i \in Ids |-> -1]
    /\ lastType = [i \in Ids |-> ""]
    /\ proc = ProcessUp
    /\ router = RouterIdle
    /\ LimiterIdle
    /\ ThreadsIdle
    /\ SystemAsLoaded
    /\ dumpers = NoDumpers
    /\ StoreUnobserved
    /\ SchedulerIdle
    /\ HandlerIdle
    /\ DumpIdle

SpecProbes == InitProbes /\ [][NextAnalyzer]_vars

\* --------------------------------------------------------------- C23
\* C23: a successful result received while the target is UP, after any
\* number of consecutive failures below the threshold, resets the failure
\* counter to zero, emits no event, opens or resolves no incident and
\* triggers no dump.  A step that leaves the observed run of failures at
\* zero and the target in the Analyzer's map is such a result (or changes
\* nothing of the target).
C23_SuccessWhileUpIsSilent ==
    [][\A id \in Probed :
          (/\ id \in DOMAIN states => states[id].isUp
           /\ failRun'[id] = 0
           /\ id \in DOMAIN states')
          => /\ states'[id].isUp
             /\ states'[id].failCount = 0
             /\ lastEvents' = <<>>
             /\ IncidentsOf(hmIncidents', id) = IncidentsOf(hmIncidents, id)
             /\ fileHistory' = fileHistory
             /\ fileIncidents' = fileIncidents
      ]_vars

\* A threshold-3 target is UP with counter 0 right after a failure followed
\* by a success; nothing was emitted and nothing dumped.
C23_Witness ==
    \E id \in Probed :
        /\ liveMonitors[id].MaxRetries = 3
        /\ id \in DOMAIN states
        /\ states[id].isUp
        /\ states[id].failCount = 0
        /\ Len(LatencyOf(hmData, id)) = 2
        /\ ~LatencyOf(hmData, id)[1].Up
        /\ LatencyOf(hmData, id)[2].Up
        /\ lastEvents = <<>>
        /\ IncidentsOf(hmIncidents, id) = <<>>
        /\ fileHistory = <<>>

\* =========================================================================
\* SpecUptime: RecordProbe on a store that keeps MaxWindowPts points, the
\* clock of SpecStore, and the API handlers reading the uptime figures.
\* =========================================================================

\* roundUptime: math.Round(v*100)/100, as the number of hundredths.  v is
\* the float64 next to f[1]/f[2]; where f[1]/f[2] lies exactly between two
\* hundredths the float64 product v*100 may fall on either side, so both
\* hundredths are possible results.
roundUptime(f) ==
    LET q == (100 * f[1]) \div f[2]
        r == (100 * f[1]) % f[2]
    IN  IF 2 * r < f[2] THEN {q}
        ELSE IF 2 * r > f[2] THEN {q + 1}
        ELSE {q, q + 1}

InitUptime ==
    /\ liveMonitors = [i \in Probed |-> Monitor(i, "", 60, 5, 1, 0, 0, <<>>)]
    /\ liveGroups = {}
    /\ now = 0
    /\ diskFault = "ok"
    /\ states = EmptyMap
    /\ maxHistoryPts = MaxWindowPts
    /\ fileHistory = <<>>
    /\ fileIncidents = <<>>
    /\ hmData = LoadStore(fileHistory, fileIncidents).data
    /\ hmIncidents = LoadStore(fileHistory, fileIncidents).incidents
    /\ lastEvents = <<>>
    /\ failRun = [i \in Ids |-> 0]
    /\ downRun = [i \in Ids |-> -1]
    /\ lastType = [i \in Ids |-> ""]
    /\ proc = ProcessUp
    /\ router = RouterIdle
    /\ LimiterIdle
    /\ ThreadsIdle
    /\ SystemAsLoaded
    /\ dumpers = NoDumpers
    /\ StoreUnobserved
    /\ SchedulerIdle
    /\ HandlerIdle
    /\ DumpIdle

\* apiMonitors and apiMonitorDetail: the view of a target that has history.
OpApiRead ==
    \E id \in DOMAIN hmData.Monitors :
        \E u24 \in roundUptime(hmData.Monitors[id].Uptime24h),
           u7 \in roundUptime(hmData.Monitors[id].Uptime7d),
           u30 \in roundUptime(hmData.Monitors[id].Uptime30d) :
            /\ got' = <<[id |-> id, Uptime24h |-> u24, Uptime7d |-> u7, Uptime30d |-> u30]>>
            /\ lastOp' = StoreOp("api", id, 0)
            /\ UNCHANGED <<threads, liveSystem, dumpers, now, diskFault, proc, router, authVars, atDump, sideVars, configVars, analyzerVars,
                           observerVars, historyVars, fileVars, schedVars, snapVars, webVars>>

NextUptime == OpRecordProbe \/ OpAdvance \/ OpApiRead

SpecUptime == InitUptime /\ [][NextUptime]_vars

\* --------------------------------------------------------------- C24
\* C24: after RecordProbe each of the three uptime figures equals 100 * k / n,
\* n being the number of points of the target's latency sequence whose
\* timestamp lies within the window (24h, 7d, 30d) before now and k the
\* number of those marked up; a window without points gives exactly 100;
\* the figure the API exposes is that value rounded to 2 decimals, that is,
\* a number of hundredths at most half a hundredth away from it.
C24_UptimeIsShareOfWindow ==
    [][/\ lastOp'.op = "probe" =>
             LET h == hmData'.Monitors[lastOp'.id]
                 within(w) == {i \in 1..Len(h.LatencyHistory) :
                                  h.LatencyHistory[i].Time >= now - w}
                 k(w) == Cardinality({i \in within(w) : h.LatencyHistory[i].Up})
                 n(w) == Cardinality(within(w))
                 is(f, w) == IF n(w) = 0 THEN f[1] = 100 * f[2]
                             ELSE f[1] * n(w) = 100 * k(w) * f[2]
             IN  /\ is(h.Uptime24h, Window24h)
                 /\ is(h.Uptime7d, Window7d)
                 /\ is(h.Uptime30d, Window30d)
       /\ lastOp'.op = "api" =>
             LET h == hmData.Monitors[lastOp'.id]
                 rounds(c, f) ==
                     LET d == c * f[2] - 100 * f[1]
                     IN  2 * d <= f[2] /\ 2 * (0 - d) <= f[2]
             IN  /\ rounds(got'[1].Uptime24h, h.Uptime24h)
                 /\ rounds(got'[1].Uptime7d, h.Uptime7d)
                 /\ rounds(got'[1].Uptime30d, h.Uptime30d)
      ]_vars

\* The API has just shown 33.33 for 30 days and 100 for 24 hours: of the
\* three points one is up, and it is the only one younger than 24 hours.
C24_Witness ==
    /\ lastOp.op = "api"
    /\ got # <<>>
    /\ got[1].Uptime30d = 3333
    /\ got[1].Uptime24h = 10000
    /\ Len(LatencyOf(hmData, got[1].id)) = 3

\* =========================================================================
\* SpecNotify: Router.Notify inside the Process that raised the alert, one
\* step per channel id of the alerting target's notifier_ids.
\* =========================================================================

\* The longest notifier_ids list of a target.
MaxChannels == 2

\* Config.Notifiers, id -> type.  UpdateNotifier stores any non-empty type
\* and Validate does not look at the notifiers: "n3" is a configured channel
\* whose type BuildNotifier does not know.  No channel has the id "nx".
Notifiers == [n1 |-> "webhook", n2 |-> "telegram", n3 |-> "slack"]

\* The values of Monitor.NotifierIDs.
NotifierLists == UNION {[1..n -> (DOMAIN Notifiers) \cup {"nx"}] : n \in 0..MaxChannels}

\* BuildNotifier: the Notifier of a type, nil for any other type.
BuildNotifier(type) == IF type \in {"telegram", "webhook"} THEN <<type>> ELSE <<>>

\* Process up to its call of Notify, and the part of Notify before its
\* loop: the target's notifier_ids are read; an empty list returns at once.
NtProcess ==
    \E id \in Probed, up \in BOOLEAN, lat \in Latencies :
        LET m == liveMonitors[id]
            wasDown == id \in DOMAIN states /\ ~states[id].isUp
        IN  /\ router.pc = 0
            /\ up \/ FailAllowed(id)
            /\ Process(id, m.MaxRetries, m.ReminderInterval, up, lat)
            /\ Observe(id, up, wasDown, ~states'[id].isUp)
            /\ \E ids \in IF lastEvents' = <<>> THEN {<<>>} ELSE NotifierLists :
                  router' = [pc |-> IF ids = <<>> THEN 0 ELSE 1, ids |-> ids,
                             attempts |-> <<>>, isFailing |-> ~up]
            /\ UNCHANGED <<threads, liveSystem, dumpers, now, diskFault, proc, authVars, storeObsVars, sideVars, configVars,
                           schedVars, snapVars, webVars>>

\* One iteration of the loop over notifierIDs: an id that is not in
\* cfg.Notifiers and a notifier BuildNotifier cannot build are logged and
\* skipped; otherwise one Send, whose error is logged.
NotifyIteration ==
    /\ router.pc \in 1..Len(router.ids)
    /\ LET id == router.ids[router.pc]
           next == [router EXCEPT !.pc = @ + 1]
       IN  \/ /\ id \notin DOMAIN Notifiers
              /\ router' = next
           \/ /\ id \in DOMAIN Notifiers
              /\ BuildNotifier(Notifiers[id]) = <<>>
              /\ router' = next
           \/ /\ id \in DOMAIN Notifiers
              /\ BuildNotifier(Notifiers[id]) # <<>>
              /\ \E ok \in BOOLEAN :
                    router' = [next EXCEPT !.attempts = Append(@, [id |-> id, ok |-> ok])]
    /\ UNCHANGED <<threads, liveSystem, dumpers, now, diskFault, proc, authVars, storeObsVars, sideVars, configVars, analyzerVars,
                   observerVars, historyVars, fileVars, schedVars, snapVars, webVars>>

\* The loop is over: Notify returns, and Process returns its AnalyzeResult.
NotifyReturn ==
    /\ router.pc = Len(router.ids) + 1
    /\ router' = [router EXCEPT !.pc = 0]
    /\ lastEvents' = <<>>
    /\ UNCHANGED <<threads, liveSystem, dumpers, now, diskFault, proc, authVars, storeObsVars, sideVars, configVars, states,
                   observerVars, historyVars, fileVars, schedVars, snapVars, webVars>>

NextNotify == NtProcess \/ NotifyIteration \/ NotifyReturn

SpecNotify == InitProbes /\ [][NextNotify]_vars

\* --------------------------------------------------------------- C25
\* C25: for an alert on a target with channel ids c1..cn, when the loop of
\* Notify is over the send attempts made are, in list order, one for each
\* listed id that is a configured channel and none for the others, whatever
\* the earlier sends returned; and no step of Notify changes the Analyzer's
\* state, the store, or what Process returns.
C25_OneAttemptPerConfiguredChannel ==
    [][ /\ router'.pc = Len(router'.ids) + 1 =>
              [k \in 1..Len(router'.attempts) |-> router'.attempts[k].id]
                  = SelectSeq(router'.ids, LAMBDA c : c \in DOMAIN Notifiers)
        /\ router.pc > 0 =>
              /\ states' = states
              /\ router'.isFailing = router.isFailing
              /\ router'.ids = router.ids
              /\ UNCHANGED <<historyVars, fileVars>>
      ]_vars

\* =========================================================================
\* SpecLogin: AuthHandler.Login and the LoginRateLimiter.  Requests arrive on
\* the instants the limiter's cleanup ticker fires or between two of them.
\* =========================================================================

\* The ticker periods followed, the Login requests comparing credentials at
\* one time, and the failed logins observed per address.
MaxPeriods == 3
MaxInFlight == 2
MaxLoginFails == 3

\* cfg.Auth.MaxLoginAttempts and cfg.Auth.LockoutDuration (seconds) handed
\* to NewLoginRateLimiter, and the period of the ticker of cleanup.
maxAttempts == 2
lockoutDuration == 600
cleanupPeriod == 300

\* time.Since(a.lockedAt) >= rl.lockoutDuration at time t; the zero
\* time.Time lies further back than any lockout.
LockoutOver(a, t) == a.lockedAt = <<>> \/ t - a.lockedAt[1] >= lockoutDuration

\* IsLocked: its result, and the map it leaves (an expired lockout is deleted).
IsLocked(att, ip, t) ==
    /\ ip \in DOMAIN att
    /\ att[ip].failCount >= maxAttempts
    /\ ~LockoutOver(att[ip], t)

AfterIsLocked(att, ip, t) ==
    IF ip \in DOMAIN att /\ att[ip].failCount >= maxAttempts /\ LockoutOver(att[ip], t)
    THEN Del(att, ip)
    ELSE att

RecordFailure(att, ip, t) ==
    LET a == IF ip \in DOMAIN att THEN att[ip] ELSE [failCount |-> 0, lockedAt |-> <<>>]
        n == a.failCount + 1
    IN  Put(att, ip, [failCount |-> n,
                      lockedAt |-> IF n >= maxAttempts THEN <<t>> ELSE a.lockedAt])

ClearIP(att, ip) == Del(att, ip)

\* One firing of the ticker of cleanup at time t.
cleanup(att, t) ==
    LET keep == {ip \in DOMAIN att : ~LockoutOver(att[ip], t)}
    IN  [ip \in keep |-> att[ip]]

LoginOutcome(ip, outcome) == <<[ip |-> ip, outcome |-> outcome]>>

\* The observed lockout of an address has run out at time t.
ObservedOver(ip, t) ==
    loginObs.lockT[ip] # <<>> /\ t - loginObs.lockT[ip][1] >= lockoutDuration

InitLogin ==
    /\ liveMonitors = EmptyMap
    /\ liveGroups = {}
    /\ now = 0
    /\ diskFault = "ok"
    /\ states = EmptyMap
    /\ maxHistoryPts = 1
    /\ fileHistory = <<>>
    /\ fileIncidents = <<>>
    /\ hmData = LoadStore(fileHistory, fileIncidents).data
    /\ hmIncidents = LoadStore(fileHistory, fileIncidents).incidents
    /\ lastEvents = <<>>
    /\ failRun = [i \in Ids |-> 0]
    /\ downRun = [i \in Ids |-> -1]
    /\ lastType = [i \in Ids |-> ""]
    /\ proc = ProcessUp
    /\ router = RouterIdle
    /\ LimiterIdle
    /\ ThreadsIdle
    /\ SystemAsLoaded
    /\ dumpers = NoDumpers
    /\ StoreUnobserved
    /\ SchedulerIdle
    /\ HandlerIdle
    /\ DumpIdle

\* Login up to its call of IsLocked: 429 when the address is locked,
\* otherwise the request goes on to compare the credentials.
LoginBegin ==
    \E ip \in Addrs :
        LET locked == IsLocked(attempts, ip, now)
            over == ObservedOver(ip, now)
        IN  /\ BagCardinality(logins) < MaxInFlight
            /\ attempts' = AfterIsLocked(attempts, ip, now)
            /\ logins' = IF locked THEN logins ELSE logins (+) One(ip)
            /\ loginObs' = [fails |-> IF over THEN [loginObs.fails EXCEPT ![ip] = 0]
                                              ELSE loginObs.fails,
                            lockT |-> IF over THEN [loginObs.lockT EXCEPT ![ip] = <<>>]
                                              ELSE loginObs.lockT,
                            last |-> LoginOutcome(ip, IF locked THEN "locked"
                                                                ELSE "checking")]
            /\ UNCHANGED <<threads, liveSystem, dumpers, now, diskFault, proc, router, storeObsVars, sideVars, configVars,
                           analyzerVars, observerVars, historyVars, fileVars, schedVars,
                           snapVars, webVars>>

\* The rest of Login: wrong username or password, RecordFailure and the
\* login page again; right ones, ClearIP and a session.
LoginFinish ==
    \E ip \in BagToSet(logins), ok \in BOOLEAN :
        /\ logins' = logins (-) One(ip)
        /\ IF ok
           THEN /\ attempts' = ClearIP(attempts, ip)
                /\ loginObs' = [fails |-> [loginObs.fails EXCEPT ![ip] = 0],
                                lockT |-> [loginObs.lockT EXCEPT ![ip] = <<>>],
                                last |-> LoginOutcome(ip, "ok")]
           ELSE /\ loginObs.fails[ip] < MaxLoginFails
                /\ attempts' = RecordFailure(attempts, ip, now)
                /\ loginObs' = [fails |-> [loginObs.fails EXCEPT ![ip] = @ + 1],
                                lockT |-> IF loginObs.fails[ip] + 1 = maxAttempts
                                          THEN [loginObs.lockT EXCEPT ![ip] = <<now>>]
                                          ELSE loginObs.lockT,
                                last |-> LoginOutcome(ip, "failed")]
        /\ UNCHANGED <<threads, liveSystem, dumpers, now, diskFault, proc, router, storeObsVars, sideVars, configVars,
                       analyzerVars, observerVars, historyVars, fileVars, schedVars,
                       snapVars, webVars>>

\* A period of the ticker passes and cleanup runs.
LimiterTick ==
    /\ now < MaxPeriods * cleanupPeriod
    /\ now' = now + cleanupPeriod
    /\ attempts' = cleanup(attempts, now')
    /\ loginObs' = [loginObs EXCEPT !.last = <<>>]
    /\ UNCHANGED <<threads, liveSystem, dumpers, logins, diskFault, proc, router, storeObsVars, sideVars, configVars,
                   analyzerVars, observerVars, historyVars, fileVars, schedVars,
                   snapVars, webVars>>

NextLogin == LoginBegin \/ LoginFinish \/ LimiterTick

SpecLogin == InitLogin /\ [][NextLogin]_vars

\* --------------------------------------------------------------- C26
\* C26: once an address has made max_login_attempts failed logins with no
\* successful login in between, every Login it begins before
\* lockout_duration has passed since the failure that completed them is
\* rejected without a look at the credentials; and a successful login
\* leaves the address without a failure record.
C26_LockedOutAfterMaxFailures ==
    [][ \A ip \in Addrs :
           /\ ( /\ loginObs.fails[ip] >= maxAttempts
                /\ ~ObservedOver(ip, now)
                /\ loginObs'.last \in {LoginOutcome(ip, "locked"), LoginOutcome(ip, "checking")} )
              => loginObs'.last = LoginOutcome(ip, "locked")
           /\ loginObs'.last = LoginOutcome(ip, "ok") => ip \notin DOMAIN attempts'
      ]_vars

\* --------------------------------------------------------------- C27
\* C27: a Process that takes the target from UP to DOWN or from DOWN to UP
\* requests a dump, which (on a disk whose writes succeed) leaves in the two
\* files the store as it is after the incident was opened or resolved, and
\* it hands its alert to the router only then: no Send has been made when
\* the files are written.  A Process that performs no transition, a
\* reminder alert included, and every step of Notify leave the files as
\* they are.
C27_DumpOnTransitionsOnly ==
    [][ \A id \in Probed :
           LET wasUp == id \notin DOMAIN states \/ states[id].isUp
               hm == HM(hmData', hmIncidents')
               incs == hmIncidents'[id]
               filed == fileIncidents'[1].Monitors[id]
           IN  id \in DOMAIN states' =>
                  IF wasUp # states'[id].isUp
                  THEN /\ fileHistory' = <<DumpHistoryDoc(hm, now)>>
                       /\ fileIncidents' = <<DumpIncidentsDoc(hm, now)>>
                       /\ filed[Len(filed)] = incs[Len(incs)]
                       /\ IsOpen(incs[Len(incs)]) = ~states'[id].isUp
                       /\ Len(lastEvents') = 1
                       /\ router'.attempts = <<>>
                  ELSE UNCHANGED fileVars
      ]_vars

\* The target has gone DOWN and stayed DOWN long enough for a reminder: the
\* reminder is with the router, and the files still hold the dump made when
\* the target went DOWN, older than the store.
C27_Witness ==
    /\ router.pc = 1
    /\ lastEvents # <<>>
    /\ lastEvents[1].Type = "down"
    /\ "a" \in DOMAIN states
    /\ ~states["a"].isUp
    /\ states["a"].failCount > liveMonitors["a"].MaxRetries
    /\ fileIncidents # <<>>
    /\ "a" \in DOMAIN fileIncidents[1].Monitors
    /\ Len(fileIncidents[1].Monitors["a"]) = 1
    /\ IsOpen(fileIncidents[1].Monitors["a"][1])
    /\ fileHistory # <<>>
    /\ fileHistory[1] # hmData

IntervalValues == {0, 30}
RetryValues == {0, 10, 30, 90}

\* startMonitor: the two intervals the goroutine is started with.
Intervals(m, defaultInterval) ==
    LET interval == IF m.Interval <= 0 THEN defaultInterval ELSE m.Interval
    IN  [normalInterval |-> interval,
         retryInterval |-> IF m.RetryInterval <= 0 THEN interval ELSE m.RetryInterval]

\* A loop that never shortens its wait.
NextIntervalAlwaysNormal(isFailing, normalInterval, retryInterval) == normalInterval

\* The wait after a probe whose runProbe returned IsFailing = isFailing.
NextInterval(isFailing, normalInterval, retryInterval) ==
    IF isFailing /\ retryInterval < normalInterval THEN retryInterval ELSE normalInterval

InitWait ==
    /\ \E T \in Thresholds, i \in IntervalValues, r \in RetryValues :
          liveMonitors = [id \in Probed |-> Monitor(id, "", i, 5, T, r, 0, <<>>)]
    /\ liveGroups = {}
    /\ now = 0
    /\ diskFault = "ok"
    /\ states = EmptyMap
    /\ maxHistoryPts = 1
    /\ fileHistory = <<>>
    /\ fileIncidents = <<>>
    /\ hmData = LoadStore(fileHistory, fileIncidents).data
    /\ hmIncidents = LoadStore(fileHistory, fileIncidents).incidents
    /\ lastEvents = <<>>
    /\ failRun = [i \in Ids |-> 0]
    /\ downRun = [i \in Ids |-> -1]
    /\ lastType = [i \in Ids |-> ""]
    /\ proc = ProcessUp
    /\ router = RouterIdle
    /\ LimiterIdle
    /\ ThreadsIdle
    /\ SystemAsLoaded
    /\ dumpers = NoDumpers
    /\ StoreUnobserved
    /\ SchedulerIdle
    /\ HandlerIdle
    /\ DumpIdle

\* startMonitor(m, cfg.System.CheckInterval) for a target that has no handle.
WtStart ==
    \E id \in Probed :
        LET m == liveMonitors[id]
            iv == Intervals(m, DefaultCheckInterval)
        IN  /\ id \notin DOMAIN running
            /\ running' = Put(running, id, [cfg |-> m])
            /\ wg' = wg + 1
            /\ loops' = loops (+) One([m |-> m, pc |-> "probe", cancelled |-> FALSE,
                                       normalInterval |-> iv.normalInterval,
                                       retryInterval |-> iv.retryInterval,
                                       currentInterval |-> iv.normalInterval])
            /\ lastEvents' = <<>>
            /\ UNCHANGED <<now, envVars, sideVars, configVars, states, observerVars,
                           historyVars, fileVars, stopPc, watcherPc, snapVars, stopRace,
                           webVars>>

\* The first probe, or case <-timer.C: runProbe, then currentInterval is
\* chosen from what Process returned and the timer is set to it.
WtProbe ==
    \E l \in BagToSet(loops), up \in BOOLEAN, lat \in Latencies :
        LET m == l.m
            wasDown == m.ID \in DOMAIN states /\ ~states[m.ID].isUp
            ar == ProcessResult(states, HM(hmData, hmIncidents), fileHistory, fileIncidents,
                                now, maxHistoryPts, m.ID, m.MaxRetries, m.ReminderInterval,
                                up, lat, diskFault)
        IN  /\ up \/ FailAllowed(m.ID)
            /\ Process(m.ID, m.MaxRetries, m.ReminderInterval, up, lat)
            /\ Observe(m.ID, up, wasDown, ~states'[m.ID].isUp)
            /\ loops' = (loops (-) One(l)) (+)
                         One([l EXCEPT !.pc = "wait",
                                       !.currentInterval =
                                           NextInterval(ar.IsFailing, l.normalInterval,
                                                        l.retryInterval)])
            /\ UNCHANGED <<now, envVars, sideVars, configVars, running, wg, stopPc, watcherPc,
                           snapVars, stopRace, webVars>>

NextWait == WtStart \/ WtProbe

SpecWait == InitWait /\ [][NextWait]_vars

\* --------------------------------------------------------------- C29
\* C29: after each probe the loop's next wait is the target's retry interval
\* when that probe failed and the retry interval is positive and shorter
\* than the normal interval, and the normal interval otherwise; the probe
\* that counts is the last raw result (the observed run of failures is not
\* zero), whatever the Analyzer's debounced state.
C29_WaitFollowsRawResult ==
    \A l \in BagToSet(loops) :
        LET m == l.m
            normal == IF m.Interval > 0 THEN m.Interval ELSE DefaultCheckInterval
            failed == failRun[m.ID] > 0
        IN  l.pc = "wait" =>
               l.currentInterval = IF failed /\ m.RetryInterval > 0 /\ m.RetryInterval < normal
                                   THEN m.RetryInterval
                                   ELSE normal

\* One failure below the threshold of 3: the Analyzer holds the target UP,
\* and the loop waits the retry interval of 10 instead of the normal 30.
C29_Witness ==
    \E l \in BagToSet(loops) :
        /\ l.pc = "wait"
        /\ l.m.Interval = 30
        /\ l.m.RetryInterval = 10
        /\ l.m.MaxRetries = 3
        /\ l.currentInterval = 10
        /\ states[l.m.ID].isUp
        /\ states[l.m.ID].failCount = 1

\* =========================================================================
\* SpecSync: the Scheduler with two targets, their loops, the changes of the
\* configuration made through the web handlers, and the reconciliations the
\* watcher runs on them.
\* =========================================================================

\* The goroutines alive at one time: two targets and one cancelled loop.
MaxSyncLoops == 3

InitSync ==
    /\ liveMonitors = [i \in Ids |-> Monitor(i, "", 60, 5, 1, 0, 0, <<>>)]
    /\ liveGroups = {}
    /\ now = 0
    /\ diskFault = "ok"
    /\ states = EmptyMap
    /\ maxHistoryPts = 1
    /\ fileHistory = <<>>
    /\ fileIncidents = <<>>
    /\ hmData = LoadStore(fileHistory, fileIncidents).data
    /\ hmIncidents = LoadStore(fileHistory, fileIncidents).incidents
    /\ lastEvents = <<>>
    /\ failRun = [i \in Ids |-> 0]
    /\ downRun = [i \in Ids |-> -1]
    /\ lastType = [i \in Ids |-> ""]
    /\ proc = ProcessUp
    /\ router = RouterIdle
    /\ LimiterIdle
    /\ ThreadsIdle
    /\ SystemAsLoaded
    /\ dumpers = NoDumpers
    /\ StoreUnobserved
    /\ SchedulerIdle
    /\ HandlerIdle
    /\ DumpIdle

\* watchChanges: s.syncMonitors(cfg), all three loops of it.
SySync ==
    LET desired == Desired(SnapMonitors(watchCfg))
        r == syncMonitors(Sched(running, loops, states, wg), desired)
    IN  /\ watcherPc = "sync"
        /\ BagCardinality(r.loops) <= MaxSyncLoops
        /\ running' = r.running
        /\ loops' = r.loops
        /\ states' = r.states
        /\ wg' = r.wg
        /\ watcherPc' = "select"
        /\ watchCfg' = NoSnapshot
        /\ syncDesired' = syncDesired
        /\ stale' = Synced(stale)
        /\ lastEvents' = <<>>
        /\ UNCHANGED <<now, envVars, sideVars, configVars, observerVars, historyVars, fileVars,
                       stopPc, stopRace, onChange, pendingRemove, changes>>

\* A loop's first probe or case <-timer.C; the targets of SpecSync answer
\* every probe.
SyProbe ==
    \E l \in BagToSet(loops), lat \in Latencies :
        l.pc \in {"probe", "wait"} /\ RunProbe(l, TRUE, lat)

NextSync ==
    \/ Start \/ WatchSubscribe \/ WatchRecv \/ SySync
    \/ SyProbe \/ LoopExit
    \/ ToggleMonitor \/ UpdateMonitor \/ DeleteMonitor \/ DeleteMonitorHistory

SpecSync == InitSync /\ [][NextSync]_vars

\* --------------------------------------------------------------- C30
\* C30: a reconciliation leaves alone every target that has a handle and
\* whose definition in the snapshot equals the one it was started with,
\* whatever it does to the other targets: the handle stays the same, and the
\* target's loops are the same after the step as before it, none cancelled,
\* none added, each where it was in its schedule.
C30_UnchangedTargetsUntouched ==
    [][ (watcherPc = "sync" /\ watcherPc' = "select") =>
           LET desired == Desired(SnapMonitors(watchCfg))
           IN  \A id \in DOMAIN running :
                  (id \in DOMAIN desired /\ running[id].cfg = desired[id]) =>
                      /\ id \in DOMAIN running'
                      /\ running'[id] = running[id]
                      /\ \A l \in BagToSet(loops) \cup BagToSet(loops') :
                            l.m.ID = id => CopiesIn(l, loops') = CopiesIn(l, loops)
      ]_vars

\* The reconciliation of an edit of "a" has run: "a" has a cancelled loop
\* and a new one before its first probe, and the loop of "b", unchanged,
\* waits for its timer with its context alive.
C30_Witness ==
    /\ watcherPc = "select"
    /\ stale = "no"
    /\ changes = 1
    /\ "a" \in DOMAIN running
    /\ "b" \in DOMAIN running
    /\ running["a"].cfg.MaxRetries = 3
    /\ running["b"].cfg.MaxRetries = 1
    /\ \E l \in BagToSet(loops) : l.m.ID = "a" /\ l.cancelled /\ l.m.MaxRetries = 1
    /\ \E l \in BagToSet(loops) : l.m.ID = "a" /\ ~l.cancelled /\ l.pc = "probe"
    /\ \A l \in BagToSet(loops) : l.m.ID = "b" => (~l.cancelled /\ l.pc = "wait")
    /\ \E l \in BagToSet(loops) : l.m.ID = "b"

\* =========================================================================
\* SpecRetry: the History Store on a disk whose writes may fail, with the
\* Dumps of periodicDump: a Dump that fails is followed by the next one,
\* after the disk has been put right.
\* =========================================================================

\* A Dump that applies the eviction to hm.incidents itself.
DumpCallEvicting(hm, t, out, fh, fi) ==
    [hm |-> HM(hm.data, [k \in DOMAIN hm.incidents |->
                            FilterKept(hm.incidents[k], t - incidentRetentionSec)]),
     files |-> DumpFiles(hm, t, out, fh, fi),
     err |-> out # "ok"]

\* Dump as a whole: the store it leaves (it only reads it, under RLock), the
\* two files, and whether it returns an error.
DumpCall(hm, t, out, fh, fi) ==
    [hm |-> hm, files |-> DumpFiles(hm, t, out, fh, fi), err |-> out # "ok"]

InitRetry ==
    /\ liveMonitors = [i \in Probed |-> Monitor(i, "", 60, 5, 1, 0, 0, <<>>)]
    /\ liveGroups = {}
    /\ now = 0
    /\ diskFault \in DumpOutcomes
    /\ states = EmptyMap
    /\ maxHistoryPts = 1
    /\ fileHistory = <<>>
    /\ fileIncidents = <<>>
    /\ hmData = LoadStore(fileHistory, fileIncidents).data
    /\ hmIncidents = LoadStore(fileHistory, fileIncidents).incidents
    /\ lastEvents = <<>>
    /\ failRun = [i \in Ids |-> 0]
    /\ downRun = [i \in Ids |-> -1]
    /\ lastType = [i \in Ids |-> ""]
    /\ proc = ProcessUp
    /\ router = RouterIdle
    /\ LimiterIdle
    /\ ThreadsIdle
    /\ SystemAsLoaded
    /\ dumpers = NoDumpers
    /\ StoreUnobserved
    /\ SchedulerIdle
    /\ HandlerIdle
    /\ DumpIdle

\* periodicDump: case <-ticker.C, histMgr.Dump(), the error logged.
RtDump ==
    LET r == DumpCall(HM(hmData, hmIncidents), now, diskFault, fileHistory, fileIncidents)
    IN  /\ BeforeDump
        /\ hmData' = r.hm.data
        /\ hmIncidents' = r.hm.incidents
        /\ fileHistory' = r.files.history
        /\ fileIncidents' = r.files.incidents
        /\ atDump' = IF r.err THEN <<>> ELSE <<[hm |-> r.hm, time |-> now]>>
        /\ lastOp' = StoreOp(IF r.err THEN "dumpFailed" ELSE "dump", "", 0)
        /\ UNCHANGED <<threads, liveSystem, dumpers, now, diskFault, proc, router, authVars, got, sideVars, configVars,
                       analyzerVars, observerVars, maxHistoryPts, schedVars, snapVars, webVars>>

\* After a Dump has failed, the disk takes writes again (space was freed).
RtDiskRepaired ==
    /\ lastOp.op = "dumpFailed"
    /\ diskFault' = "ok"
    /\ lastOp' = StoreOp("other", "", 0)
    /\ UNCHANGED <<threads, liveSystem, dumpers, now, proc, router, authVars, atDump, got, sideVars, configVars, analyzerVars,
                   observerVars, historyVars, fileVars, schedVars, snapVars, webVars>>

NextRetry ==
    \/ OpRecordProbe \/ OpRecordDown \/ OpRecordUp \/ OpAdvance
    \/ RtDump \/ RtDiskRepaired

SpecRetry == InitRetry /\ [][NextRetry]_vars

\* --------------------------------------------------------------- C31
\* C31: a Dump, whether it succeeds or fails, leaves the store's latency
\* sequences, uptime figures and incident lists as they were (the eviction
\* shows in the written copy only) and the process running; it returns an
\* error exactly when a write fails; and a Dump that succeeds, the first or
\* one that follows failed ones, leaves in the two files the documents of
\* the whole store.
C31_DumpLeavesStoreUnchanged ==
    [][ lastOp'.op \in {"dump", "dumpFailed"} =>
           /\ UNCHANGED <<hmData, hmIncidents, maxHistoryPts>>
           /\ proc' = proc
           /\ ~proc'.exited
           /\ (lastOp'.op = "dumpFailed") = (diskFault # "ok")
           /\ lastOp'.op = "dump" =>
                 /\ fileHistory' = <<DumpHistoryDoc(HM(hmData, hmIncidents), now)>>
                 /\ fileIncidents' = <<DumpIncidentsDoc(HM(hmData, hmIncidents), now)>>
      ]_vars

\* A Dump has failed at its second write, more than 30 days after a resolved
\* incident began: history.json is written, incidents.json is not, and the
\* store still holds the incident the written copy would leave out.
C31_Witness ==
    /\ lastOp.op = "dumpFailed"
    /\ diskFault = "failIncidents"
    /\ fileHistory # <<>>
    /\ fileIncidents = <<>>
    /\ now > incidentRetentionSec
    /\ Len(IncidentsOf(hmIncidents, "a")) = 1
    /\ ~IsOpen(hmIncidents["a"][1])
    /\ hmIncidents["a"][1].StartedAt = 0
    /\ ~proc.exited

\* --------------------------------------------------------------- C32
\* C32: once the handle of a target has been cancelled (every loop of the
\* target has a cancelled context), no step counts a probe result of the
\* target in the Analyzer or hands an alert to the router: the target's
\* runtime state, if it is still there after the step, is what it was, and
\* the step emits no event.
C32_CancelledLoopRecordsNothing ==
    [][ \A id \in Probed :
           ( /\ \E l \in BagToSet(loops) : l.m.ID = id
             /\ \A l \in BagToSet(loops) : l.m.ID = id => l.cancelled )
           => /\ id \in DOMAIN states' => (id \in DOMAIN states /\ states'[id] = states[id])
              /\ lastEvents' = <<>>
      ]_vars

\* --------------------------------------------------------------- C33
\* C33: whenever the last latency point recorded for a target is a
\* successful probe, none of the target's incidents is unresolved.
C33_SuccessLeavesNoOpenIncident ==
    \A id \in Probed :
        LET pts == LatencyOf(hmData, id)
        IN  (pts # <<>> /\ pts[Len(pts)].Up) => LatestOpen(IncidentsOf(hmIncidents, id)) = 0

\* =========================================================================
\* SpecDumps: Dumps called from several goroutines (periodicDump, Process
\* at a transition, main at shutdown).  Dump copies the store under RLock
\* and writes the two files after RUnlock, holding no lock; each
\* atomicWriteJSON replaces its file in one rename.
\* =========================================================================

\* The Dumps called in one behaviour.
MaxDumps == 2

\* Dump up to hm.mu.RUnlock(): the two documents are built.
DsSnapshot ==
    LET hm == HM(hmData, hmIncidents)
        docs == [history |-> DumpHistoryDoc(hm, now), incidents |-> DumpIncidentsDoc(hm, now)]
        n == dumpers.taken + 1
    IN  /\ dumpers.taken < MaxDumps
        /\ dumpers' = [taken |-> n, last |-> <<docs>>,
                       flying |-> dumpers.flying \cup {[n |-> n, docs |-> docs, pc |-> "history"]}]
        /\ lastOp' = StoreOp("other", "", 0)
        /\ UNCHANGED <<threads, liveSystem, now, diskFault, proc, router, authVars, atDump, got, sideVars, configVars,
                       analyzerVars, observerVars, historyVars, fileVars, schedVars, snapVars,
                       webVars>>

\* atomicWriteJSON(hm.filePath, dataCopy) of one of the Dumps.
DsWriteHistory ==
    \E d \in dumpers.flying :
        /\ d.pc = "history"
        /\ fileHistory' = <<d.docs.history>>
        /\ dumpers' = [dumpers EXCEPT !.flying = (@ \ {d}) \cup {[d EXCEPT !.pc = "incidents"]}]
        /\ lastOp' = StoreOp("other", "", 0)
        /\ UNCHANGED <<threads, liveSystem, now, diskFault, proc, router, authVars, atDump, got, sideVars, configVars,
                       analyzerVars, observerVars, historyVars, fileIncidents, schedVars,
                       snapVars, webVars>>

\* atomicWriteJSON(hm.incidentsPath, incidentsCopy), and Dump returns nil.
DsWriteIncidents ==
    \E d \in dumpers.flying :
        /\ d.pc = "incidents"
        /\ fileIncidents' = <<d.docs.incidents>>
        /\ dumpers' = [dumpers EXCEPT !.flying = @ \ {d}]
        /\ lastOp' = StoreOp("other", "", 0)
        /\ UNCHANGED <<threads, liveSystem, now, diskFault, proc, router, authVars, atDump, got, sideVars, configVars,
                       analyzerVars, observerVars, historyVars, fileHistory, schedVars,
                       snapVars, webVars>>

NextDumps ==
    \/ OpRecordProbe \/ OpRecordDown \/ OpRecordUp
    \/ DsSnapshot \/ DsWriteHistory \/ DsWriteIncidents

SpecDumps == InitStore /\ [][NextDumps]_vars

\* --------------------------------------------------------------- C34
\* C34: once every Dump that was called has returned, the two files hold the
\* documents of the snapshot that was taken last.
C34_FilesHoldLastSnapshot ==
    (dumpers.taken > 0 /\ dumpers.flying = {}) =>
        /\ fileHistory = <<dumpers.last[1].history>>
        /\ fileIncidents = <<dumpers.last[1].incidents>>

\* =========================================================================
\* SpecInterval: the system default check interval and the goroutines.
\* Start and the watcher reconcile against the Config they got from Get,
\* whose System.CheckInterval startMonitor is given; SaveSystem and
\* UpdateMonitor change the default and a target's own interval.
\* =========================================================================

\* The check_interval values SaveSystem is sent (seconds).
CheckIntervals == {60, 120}

\* The interval a definition asks for under a default: its own when
\* positive, else the default.
EffectiveInterval(m, defaultInterval) == Intervals(m, defaultInterval).normalInterval

\* The goroutine of a loop startMonitor(m, defaultInterval) has just
\* started, with its interval locals; a loop that has them is left as it is.
Timed(l, defaultInterval) ==
    IF "normalInterval" \in DOMAIN l THEN l
    ELSE LET iv == Intervals(l.m, defaultInterval)
         IN  [m |-> l.m, pc |-> l.pc, cancelled |-> l.cancelled,
              normalInterval |-> iv.normalInterval,
              retryInterval |-> iv.retryInterval,
              currentInterval |-> iv.normalInterval]

\* syncMonitors(cfg) for a Config with the given Monitors and System.
SyncConfig(mons, sys, extra) ==
    LET r == syncMonitors(Sched(running, loops, states, wg), Desired(mons))
    IN  /\ BagCardinality(r.loops) <= MaxLoops
        /\ running' = r.running
        /\ loops' = BagOfAll(LAMBDA l : Timed(l, sys.CheckInterval), r.loops)
        /\ states' = r.states
        /\ wg' = r.wg + extra

\* Scheduler.Start.
IvStart ==
    /\ watcherPc = "off"
    /\ SyncConfig(liveMonitors, liveSystem, 1)
    /\ watcherPc' = "subscribe"
    /\ lastEvents' = <<>>
    /\ UNCHANGED <<now, envVars, sideVars, configVars, observerVars, historyVars, fileVars,
                   stopPc, snapVars, stopRace, webVars>>

\* watchChanges, case <-onChange: Get and syncMonitors(cfg).
IvWatch ==
    /\ watcherPc = "select"
    /\ onChange = 1
    /\ onChange' = 0
    /\ SyncConfig(liveMonitors, liveSystem, 0)
    /\ stale' = "no"
    /\ lastEvents' = <<>>
    /\ UNCHANGED <<now, envVars, sideVars, configVars, observerVars, historyVars, fileVars,
                   stopPc, watcherPc, snapVars, stopRace, pendingRemove, changes>>

\* Handlers.SaveSystem: check_interval from the form, then Save (Validate
\* holds every timeout against the interval its entry now asks for).
IvSaveSystem ==
    \E c \in CheckIntervals :
        /\ c # liveSystem.CheckInterval
        /\ \A id \in DOMAIN liveMonitors :
              liveMonitors[id].Timeout < EffectiveInterval(liveMonitors[id], c)
        /\ watcherPc # "off"
        /\ changes < MaxChanges
        /\ changes' = changes + 1
        /\ liveSystem' = [liveSystem EXCEPT !.CheckInterval = c]
        /\ onChange' = Broadcast(onChange)
        /\ stale' = "saved"
        /\ lastEvents' = <<>>
        /\ UNCHANGED <<threads, now, diskFault, proc, router, authVars, dumpers, storeObsVars, sideVars,
                       configVars, states, observerVars, historyVars, fileVars, schedVars,
                       snapVars, pendingRemove>>

\* Handlers.UpdateMonitor with another interval in the form.
IvUpdateMonitor ==
    \E id \in DOMAIN liveMonitors, i \in IntervalValues :
        /\ i # liveMonitors[id].Interval
        /\ liveMonitors[id].Timeout < EffectiveInterval([liveMonitors[id] EXCEPT !.Interval = i],
                                                        liveSystem.CheckInterval)
        /\ SaveMonitors([liveMonitors EXCEPT ![id].Interval = i], FALSE)
        /\ UNCHANGED <<now, envVars, sideVars, states, observerVars, historyVars, fileVars,
                       schedVars, pendingRemove>>

NextIntervals ==
    \/ IvStart \/ WatchSubscribe \/ IvWatch
    \/ IvSaveSystem \/ IvUpdateMonitor
    \/ WtProbe \/ LoopExit

SpecInterval == InitWait /\ [][NextIntervals]_vars

\* --------------------------------------------------------------- C35
\* C35: once the Scheduler has reconciled the last saved configuration,
\* every running loop waits, as its normal interval, the interval its
\* target has under that configuration: the target's own when positive,
\* else the system default check interval.
C35_LoopsUseEffectiveInterval ==
    (watcherPc # "off" /\ stale = "no") =>
        \A l \in BagToSet(loops) :
            ~l.cancelled =>
                l.normalInterval = EffectiveInterval(liveMonitors[l.m.ID],
                                                     liveSystem.CheckInterval)

\* --------------------------------------------------------------- C36
\* C36: a reconciliation that restarts a target because its definition
\* changed leaves the target's runtime state as it was, records nothing and
\* emits nothing; and the first probe of a loop that finds its target DOWN
\* either fails, and then the target stays DOWN and no incident is added
\* (an event, if any, is a reminder), or succeeds, and then the target is
\* UP, exactly one up event is emitted and the incident that was open is
\* resolved.
C36_RestartKeepsRuntimeState ==
    [][ /\ (watcherPc = "sync" /\ watcherPc' = "select") =>
              LET desired == Desired(SnapMonitors(watchCfg))
              IN  \A id \in DOMAIN running \cap DOMAIN states :
                     (id \in DOMAIN desired /\ running[id].cfg # desired[id]) =>
                         /\ id \in DOMAIN states'
                         /\ states'[id] = states[id]
                         /\ hmIncidents' = hmIncidents
                         /\ lastEvents' = <<>>
        /\ \A l \in BagToSet(loops) :
              LET id == l.m.ID
                  incs == IncidentsOf(hmIncidents, id)
                  after == IncidentsOf(hmIncidents', id)
              IN  ( /\ l.pc = "probe"
                    /\ loops' = (loops (-) One(l)) (+) One([l EXCEPT !.pc = "wait"])
                    /\ id \in DOMAIN states
                    /\ ~states[id].isUp ) =>
                      /\ id \in DOMAIN states'
                      /\ Len(after) = Len(incs)
                      /\ IF states'[id].isUp
                         THEN /\ Len(lastEvents') = 1
                              /\ lastEvents'[1].MonitorID = id
                              /\ lastEvents'[1].Type = "up"
                              /\ LatestOpen(incs) # 0 => ~IsOpen(after[LatestOpen(incs)])
                         ELSE /\ after = incs
                              /\ states'[id].failCount = states[id].failCount + 1
                              /\ lastEvents' # <<>> =>
                                    (l.m.ReminderInterval > 0 /\ states'[id].reminderCount = 0)
      ]_vars

\* The target went DOWN under its first definition (one failure is enough),
\* its threshold was raised, the reconciliation restarted it, and the new
\* loop has probed and failed: the target is DOWN with one incident, its
\* failure counter below the threshold its handle now has.
C36_Witness ==
    /\ "a" \in DOMAIN states
    /\ ~states["a"].isUp
    /\ "a" \in DOMAIN running
    /\ states["a"].failCount < running["a"].cfg.MaxRetries
    /\ IncidentCountOf("a") = 1
    /\ \E l \in BagToSet(loops) :
          l.m = running["a"].cfg /\ ~l.cancelled /\ l.pc = "wait"

\* =========================================================================
\* SpecEvents: the Analyzer as its callers drive it while definitions are
\* edited: each Process call carries the threshold and the reminder cadence
\* of the definition its loop was started with.
\* =========================================================================

EvProcess ==
    \E id \in Probed, T \in Thresholds, R \in Cadences, up \in BOOLEAN, lat \in Latencies :
        LET wasDown == id \in DOMAIN states /\ ~states[id].isUp
        IN  /\ up \/ FailAllowed(id)
            /\ Process(id, T, R, up, lat)
            /\ Observe(id, up, wasDown, ~states'[id].isUp)
            /\ UNCHANGED <<now, envVars, sideVars, configVars, schedVars, snapVars, webVars>>

\* The process as InitAnalyzer starts it; the definition in the live
\* configuration is one of those the calls carry.
InitEvents ==
    /\ InitAnalyzer
    /\ liveMonitors = [i \in Probed |-> Monitor(i, "", 60, 5, 1, 0, 0, <<>>)]

NextEvents == EvProcess \/ ARemoveState \/ ARestart

SpecEvents == InitEvents /\ [][NextEvents]_vars

\* --------------------------------------------------------------- C37
\* C37: for each target, between two resets of its runtime state
\* (RemoveState, a restart of the process), the first event emitted is a
\* down event and every up event comes directly after a down event of the
\* target, so that two up events are never consecutive.
C37_EventsAreDownsThenUp ==
    [][ \A i \in 1..Len(lastEvents') :
           LET e == lastEvents'[i]
               before == IF i = 1 THEN lastType[e.MonitorID] ELSE lastEvents'[i - 1].Type
           IN  /\ before = "" => e.Type = "down"
               /\ e.Type = "up" => before = "down"
      ]_vars

\* Two outages of the target, both reported and both ended by an up event,
\* the second one just now.
C37_Witness ==
    /\ lastEvents # <<>>
    /\ lastEvents[1].MonitorID = "a"
    /\ lastEvents[1].Type = "up"
    /\ lastType["a"] = "up"
    /\ IncidentCountOf("a") = 2

\* --------------------------------------------------------------- C38
\* C38: for a target whose threshold T >= 1 and reminder cadence R stay the
\* same, after every Process call the failure counter is >= 0; while the
\* state is UP the failure counter is below T and the reminder counter is
\* 0; while it is DOWN the failure counter is at least T and, when R > 0,
\* the reminder counter is below R.
C38_CountersWithinBounds ==
    \A id \in DOMAIN states :
        LET s == states[id]
            T == liveMonitors[id].MaxRetries
            R == liveMonitors[id].ReminderInterval
        IN  /\ s.failCount >= 0
            /\ s.isUp => (s.failCount < T /\ s.reminderCount = 0)
            /\ ~s.isUp => (s.failCount >= T /\ (R > 0 => s.reminderCount < R))

\* The target is DOWN past its threshold of 3, half way to its next
\* reminder.
C38_Witness ==
    /\ "a" \in DOMAIN states
    /\ ~states["a"].isUp
    /\ liveMonitors["a"].MaxRetries = 3
    /\ liveMonitors["a"].ReminderInterval = 2
    /\ states["a"].failCount > 3
    /\ states["a"].reminderCount = 1

\* =========================================================================
\* SpecLocks: the mutexes of the Scheduler (s.mu), the Analyzer (a.mu), the
\* History Store (hm.mu, a RWMutex) and the configuration Manager (m.mu, a
\* RWMutex, and m.subMu), and the calls that take them.  Each call is the
\* sequence of Lock, RLock and Unlock operations its code performs, nested
\* calls included; the goroutines run their calls step by step, in any
\* interleaving.  A sync.RWMutex lets no new reader in once a writer has
\* called Lock: Lock is the announcement ("want") followed by the
\* acquisition, which waits for the readers to leave.
\* =========================================================================

RWMutexes == {"hm.mu", "m.mu"}

LockStep(act, mu) == [act |-> act, mu |-> mu]

LockOf(mu) ==
    IF mu \in RWMutexes THEN <<LockStep("want", mu), LockStep("lock", mu)>>
    ELSE <<LockStep("lock", mu)>>
UnlockOf(mu) == <<LockStep("unlock", mu)>>
RLockOf(mu) == <<LockStep("rlock", mu)>>
RUnlockOf(mu) == <<LockStep("runlock", mu)>>

\* Manager.Get
GetLocks == RLockOf("m.mu") \o RUnlockOf("m.mu")

\* A Save that takes the subscriber-list lock first.
SaveLocksSubscribersFirst ==
    LockOf("m.subMu") \o LockOf("m.mu") \o UnlockOf("m.mu") \o UnlockOf("m.subMu")

\* Manager.Save, from m.mu.Lock() on.
SaveLocks == LockOf("m.mu") \o LockOf("m.subMu") \o UnlockOf("m.subMu") \o UnlockOf("m.mu")

\* Manager.Subscribe
SubscribeLocks == LockOf("m.subMu") \o UnlockOf("m.subMu")

\* RecordProbe, RecordDown, RecordUp, RemoveMonitor
StoreWriteLocks == LockOf("hm.mu") \o UnlockOf("hm.mu")

\* GetMonitor, GetAll, and Dump up to its RUnlock
StoreReadLocks == RLockOf("hm.mu") \o RUnlockOf("hm.mu")

\* Analyzer.RemoveState
RemoveStateLocks == LockOf("a.mu") \o UnlockOf("a.mu")

\* Analyzer.Process: RecordProbe; at a transition RecordDown or RecordUp and
\* Dump; with an event Router.Notify, which calls Get.
ProcessLocks(transition, event) ==
    LockOf("a.mu") \o StoreWriteLocks
        \o (IF transition THEN StoreWriteLocks \o StoreReadLocks ELSE <<>>)
        \o (IF event THEN GetLocks ELSE <<>>)
        \o UnlockOf("a.mu")

\* Scheduler.syncMonitors: RemoveState for a target that left the configuration.
syncMonitorsLocks(removed) ==
    LockOf("s.mu") \o (IF removed THEN RemoveStateLocks ELSE <<>>) \o UnlockOf("s.mu")

\* Scheduler.Stop up to wg.Wait
StopLocks == LockOf("s.mu") \o UnlockOf("s.mu")

\* The calls each goroutine makes: the watcher subscribes and reconciles;
\* main stops the Scheduler and dumps (as periodicDump does); the loop
\* calls Process; a handler reads (Get, GetAll) or edits (Get, Save,
\* RemoveMonitor).
Calls(t) ==
    CASE t = "watcher" ->
            {SubscribeLocks} \cup {GetLocks \o syncMonitorsLocks(r) : r \in BOOLEAN}
      [] t = "main" -> {StopLocks, StoreReadLocks}
      [] t = "loop" -> {ProcessLocks(FALSE, FALSE), ProcessLocks(TRUE, TRUE)}
      [] OTHER -> {GetLocks \o StoreReadLocks, GetLocks \o SaveLocks \o StoreWriteLocks}

\* The acquisition order the calls are held against.
LockRank(mu) ==
    CASE mu = "s.mu" -> 1
      [] mu = "a.mu" -> 2
      [] mu = "hm.mu" -> 3
      [] mu = "m.mu" -> 4
      [] OTHER -> 5

HeldIn(thr, mu, modes) ==
    {t \in Threads : \E i \in 1..Len(thr[t].held) :
                        thr[t].held[i].mu = mu /\ thr[t].held[i].mode \in modes}

\* Whether the operation returns now (else the goroutine blocks in it),
\* given what the goroutines hold.
CanTake(thr, step) ==
    CASE step.act = "want" -> HeldIn(thr, step.mu, {"pending", "w"}) = {}
      [] step.act = "rlock" -> HeldIn(thr, step.mu, {"pending", "w"}) = {}
      [] step.act = "lock" ->
            IF step.mu \in RWMutexes THEN HeldIn(thr, step.mu, {"r"}) = {}
            ELSE HeldIn(thr, step.mu, {"w"}) = {}
      [] OTHER -> TRUE

Without(held, mu) == SelectSeq(held, LAMBDA h : h.mu # mu)

AfterStep(held, step) ==
    CASE step.act = "want" -> Append(held, [mu |-> step.mu, mode |-> "pending"])
      [] step.act = "rlock" -> Append(held, [mu |-> step.mu, mode |-> "r"])
      [] step.act = "lock" -> Append(Without(held, step.mu), [mu |-> step.mu, mode |-> "w"])
      [] OTHER -> Without(held, step.mu)

othersLocks == <<now, diskFault, proc, router, authVars, dumpers, liveSystem, storeObsVars,
                 configVars, analyzerVars, observerVars, historyVars, fileVars, schedVars,
                 snapVars, webVars, sideVars>>

\* A goroutine enters a call.
LkCall ==
    \E t \in Threads : \E c \in Calls(t) :
        /\ threads[t].todo = <<>>
        /\ threads' = [threads EXCEPT ![t].todo = c]
        /\ UNCHANGED othersLocks

\* A goroutine's next lock operation returns.
LkStep ==
    \E t \in Threads :
        /\ threads[t].todo # <<>>
        /\ CanTake(threads, Head(threads[t].todo))
        /\ threads' = [threads EXCEPT ![t] = [held |-> AfterStep(@.held, Head(@.todo)),
                                               todo |-> Tail(@.todo)]]
        /\ UNCHANGED othersLocks

NextLocks == LkCall \/ LkStep

SpecLocks == InitSync /\ [][NextLocks]_vars

\* --------------------------------------------------------------- C39
\* C39: the goroutines never all block: whenever some goroutine is inside
\* a call, some goroutine's next lock operation can return; and every
\* goroutine takes the mutexes in one order (Scheduler, Analyzer, History
\* Store, Manager, subscriber list): a mutex it starts to acquire ranks above
\* every mutex it holds.
C39_LocksTakenInOneOrder ==
    [][ /\ (\E t \in Threads : threads'[t].todo # <<>>) =>
              \E t \in Threads :
                  threads'[t].todo # <<>> /\ CanTake(threads', Head(threads'[t].todo))
        /\ \A t \in Threads :
              LET before == threads[t].held
                  after == threads'[t].held
              IN  (Len(after) = Len(before) + 1) =>
                      \A i \in 1..Len(before) :
                          LockRank(before[i].mu) < LockRank(after[Len(after)].mu)
      ]_vars

\* The per-target loop inside Process, holding a.mu and
\* writing to the store, while the watcher holds s.mu and waits in
\* RemoveState for a.mu, and a handler inside Save holds m.mu and m.subMu.
C39_Witness ==
    /\ Len(threads["loop"].held) = 2
    /\ threads["loop"].held[1].mu = "a.mu"
    /\ threads["loop"].held[2] = [mu |-> "hm.mu", mode |-> "w"]
    /\ Len(threads["watcher"].held) = 1
    /\ threads["watcher"].held[1].mu = "s.mu"
    /\ threads["watcher"].todo # <<>>
    /\ Head(threads["watcher"].todo) = LockStep("lock", "a.mu")
    /\ \E t \in {"web1", "web2"} :
          /\ Len(threads[t].held) = 2
          /\ threads[t].held[1].mu = "m.mu"
          /\ threads[t].held[2].mu = "m.subMu"

\* =========================================================================
\* SpecPoints: the History Store and system.max_history_points.  main hands
\* the value of the configuration it loaded to NewHistoryManager; SaveSystem
\* saves another value; the process is restarted on the files a Dump left.
\* =========================================================================

\* Handlers.SaveSystem: max_history_points from the form, then Save.
HpSaveSystem ==
    \E p \in 1..MaxPts :
        /\ p # liveSystem.MaxHistoryPoints
        /\ changes < MaxChanges
        /\ changes' = changes + 1
        /\ liveSystem' = [liveSystem EXCEPT !.MaxHistoryPoints = p]
        /\ onChange' = Broadcast(onChange)
        /\ stale' = "saved"
        /\ lastOp' = StoreOp("other", "", 0)
        /\ UNCHANGED <<threads, now, diskFault, proc, router, authVars, dumpers, atDump, got,
                       sideVars, configVars, analyzerVars, observerVars, historyVars, fileVars,
                       schedVars, snapVars, pendingRemove>>

\* periodicDump: a Dump that writes both files.
HpDump ==
    LET f == DumpFiles(HM(hmData, hmIncidents), now, "ok", fileHistory, fileIncidents)
    IN  /\ fileHistory' = f.history
        /\ fileIncidents' = f.incidents
        /\ lastOp' = StoreOp("other", "", 0)
        /\ UNCHANGED <<threads, liveSystem, now, diskFault, proc, router, authVars, dumpers,
                       atDump, got, sideVars, configVars, analyzerVars, observerVars,
                       historyVars, schedVars, snapVars, webVars>>

\* The process ends and main starts again: NewHistoryManager on the files,
\* with the max_history_points of the configuration it loads.
HpRestart ==
    /\ fileHistory # <<>>
    /\ hmData' = LoadStore(fileHistory, fileIncidents).data
    /\ hmIncidents' = LoadStore(fileHistory, fileIncidents).incidents
    /\ maxHistoryPts' = liveSystem.MaxHistoryPoints
    /\ lastOp' = StoreOp("other", "", 0)
    /\ UNCHANGED <<threads, liveSystem, now, diskFault, proc, router, authVars, dumpers,
                   atDump, got, sideVars, configVars, analyzerVars, observerVars, fileVars,
                   schedVars, snapVars, webVars>>

NextPoints == OpRecordProbe \/ HpSaveSystem \/ HpDump \/ HpRestart

SpecPoints == InitStore /\ [][NextPoints]_vars

\* --------------------------------------------------------------- C40
\* C40: every RecordProbe leaves the target's latency sequence trimmed to
\* the max_history_points of the configuration current at the call: the
\* sequence it had, with the new point, cut to its newest max_history_points
\* entries, whether the value was loaded at startup or saved since, and
\* however long the sequence loaded from the file is.
C40_TrimsToConfiguredMaximum ==
    [][lastOp'.op = "probe" =>
          LET old == LatencyOf(hmData, lastOp'.id)
              new == LatencyOf(hmData', lastOp'.id)
          IN  Len(new) = Min(Len(old) + 1, liveSystem.MaxHistoryPoints)]_vars

====
